---------------------------- MODULE Spec2Model ----------------------------
(***************************************************************************)
(* A model of the ready-set-boole formula toolkit: the RPN parser and the  *)
(* expression tree of ex06/tree, its printer, evaluator and truth-table    *)
(* builder, the NNF rewriter of ex05, the CNF rewriter and the simplifier  *)
(* of ex07, the Quine-McCluskey / Petrick minimizer of ex06/tree/cnf, the  *)
(* satisfiability test of ex07, the set evaluator of ex09 and the threaded *)
(* truth-table printer of ex04.                                            *)
(*                                                                         *)
(* Characters are one-character strings, Rust strings are sequences of     *)
(* characters, Vec<T> is a sequence (index 0 of the code is index 1 here). *)
(***************************************************************************)
EXTENDS Naturals, Sequences, FiniteSets, TLC

VARIABLES input, stack, pc, err, root, cells, out, qm, tt, alu

vars == <<input, stack, pc, err, root, cells, out, qm, tt, alu>>

-----------------------------------------------------------------------------
(* Bounds of the model.                                                    *)

\* the longest input string the parser is fed
MaxLen == 5
\* how many of the letters A..Z the inputs use
NumVars == 3
\* the number of variables and the depth of the trees given to the rewriters
TreeVars == 2
TreeDepth == 2
\* the number of variables and the depth of the trees given to both the
\* minimizer and the rewriting
BothVars == 2
BothDepth == 2
\* the number of variables and the depth of the trees given to the set
\* evaluator, and the largest integer of the sets
SetVars == 2
SetDepth == 2
MaxElem == 2
\* the largest number of variables of a printed table and the largest value
\* of available_parallelism()
PrintVars == 5
MaxParallelism == 4

-----------------------------------------------------------------------------
(* Characters.                                                             *)

Letters ==
  << "A", "B", "C", "D", "E", "F", "G", "H", "I", "J", "K", "L", "M",
     "N", "O", "P", "Q", "R", "S", "T", "U", "V", "W", "X", "Y", "Z" >>

LetterSet == { Letters[i] : i \in 1..26 }

\* the letters the inputs of the model are written with
VarNames == { Letters[i] : i \in 1..NumVars }

\* the characters the model feeds the parser: the accepted alphabet and two
\* characters outside it
InputChars == {"0", "1"} \cup VarNames \cup {"!", "&", "|", "^", ">", "="} \cup {"x", " "}

\* the byte value of a character (Rust compares chars and strings by it)
Ascii(c) ==
  CASE c = " " -> 32
    [] c = "!" -> 33
    [] c = "&" -> 38
    [] c = "0" -> 48
    [] c = "1" -> 49
    [] c = "=" -> 61
    [] c = ">" -> 62
    [] c \in LetterSet -> 64 + (CHOOSE i \in 1..26 : Letters[i] = c)
    [] c = "^" -> 94
    [] c = "x" -> 120
    [] c = "|" -> 124

\* str.contains(c)
Contains(s, c) == \E i \in 1..Len(s) : s[i] = c

\* s.repeat(n) for a one-character s
Repeat(c, n) == [i \in 1..n |-> c]

-----------------------------------------------------------------------------
(* ex06/tree/node/binop.rs: BinOp and ParseError.                          *)

BinOps == {"And", "Or", "Xor", "Impl", "Leq"}

NoError == [kind |-> "None", c |-> ""]
MissingOperand == [kind |-> "MissingOperand", c |-> ""]
UnbalancedExpression == [kind |-> "UnbalancedExpression", c |-> ""]
InvalidCharacter(c) == [kind |-> "InvalidCharacter", c |-> c]

\* TryFrom<char> for BinOp: Ok(op) is the operator's name, Err is "Invalid"
BinOpTryFrom(c) ==
  CASE c = "&" -> "And"
    [] c = "|" -> "Or"
    [] c = "^" -> "Xor"
    [] c = "=" -> "Leq"
    [] c = ">" -> "Impl"
    [] OTHER -> "Invalid"

\* From<BinOp> for char
CharFromBinOp(op) ==
  CASE op = "And" -> "&"
    [] op = "Or" -> "|"
    [] op = "Xor" -> "^"
    [] op = "Impl" -> ">"
    [] op = "Leq" -> "="

-----------------------------------------------------------------------------
(* ex06/tree/node.rs and ex06/tree/node/literal.rs: Literal and Node.      *)

Const(b) == [kind |-> "Const", val |-> b]
Var(name) == [kind |-> "Var", name |-> name]
Binary(op, children) == [kind |-> "Binary", op |-> op, children |-> children]
Node(not, literal) == [not |-> not, literal |-> literal]

\* the value of root while no tree has been returned
NoTree == Node(0, [kind |-> "None"])

RECURSIVE NodeToString(_)
\* Display for Literal: the children, then the operator children-1 times
LiteralToString(l) ==
  CASE l.kind = "Binary" ->
         (LET RECURSIVE Cat(_)
              Cat(i) == IF i > Len(l.children) THEN << >>
                        ELSE NodeToString(l.children[i]) \o Cat(i + 1)
          IN  Cat(1) \o Repeat(CharFromBinOp(l.op), Len(l.children) - 1))
    [] l.kind = "Var" -> << l.name >>
    [] l.kind = "Const" -> << IF l.val THEN "1" ELSE "0" >>

\* the literal, then a single '!' when negations are pending
NodeToStringOneNot(n) ==
  LiteralToString(n.literal) \o (IF n.not > 0 THEN << "!" >> ELSE << >>)

\* Display for Node: the literal, then one '!' per pending negation
NodeToString(n) == LiteralToString(n.literal) \o Repeat("!", n.not)

\* the operators with the operands of Impl exchanged
ApplyOpConverse(op, left, right) ==
  CASE op = "And" -> left /\ right
    [] op = "Or" -> left \/ right
    [] op = "Impl" -> (~right) \/ left
    [] op = "Leq" -> left = right
    [] op = "Xor" -> left # right

\* the standard truth table of a binary operator
ApplyOp(op, left, right) ==
  CASE op = "And" -> left /\ right
    [] op = "Or" -> left \/ right
    [] op = "Impl" -> (~left) \/ right
    [] op = "Leq" -> left = right
    [] op = "Xor" -> left # right

\* Node::eval: env is the payload of the 26 shared variable cells
RECURSIVE Eval(_, _)
Eval(n, env) ==
  LET l == n.literal
      res == (CASE l.kind = "Const" -> l.val
                [] l.kind = "Var" -> env[l.name]
                [] l.kind = "Binary" ->
                     ApplyOp(l.op, Eval(l.children[1], env), Eval(l.children[2], env)))
  IN  res # (n.not % 2 = 1)

-----------------------------------------------------------------------------
(* ex06/tree.rs: Tree::from_str, one token at a time.                      *)

\* the arm '!' with no check of the stack
ParseNotUnchecked(stk) ==
  IF Len(stk) = 0 THEN [stack |-> stk, err |-> NoError]
  ELSE [stack |-> Append(SubSeq(stk, 1, Len(stk) - 1),
                         Node(stk[Len(stk)].not + 1, stk[Len(stk)].literal)),
        err |-> NoError]

\* the arm '!': let operand = stack.pop().ok_or(MissingOperand)?
ParseNot(stk) ==
  IF Len(stk) = 0 THEN [stack |-> stk, err |-> MissingOperand]
  ELSE [stack |-> Append(SubSeq(stk, 1, Len(stk) - 1),
                         Node(stk[Len(stk)].not + 1, stk[Len(stk)].literal)),
        err |-> NoError]

\* the body of the for loop of from_str for the character c: the new stack
\* and the error the ? operator returns, if any
ParseChar(stk, c) ==
  LET n == Len(stk) IN
  IF c \in {"0", "1"} THEN
    [stack |-> Append(stk, Node(0, Const(c = "1"))), err |-> NoError]
  ELSE IF c \in LetterSet THEN
    [stack |-> Append(stk, Node(0, Var(c))), err |-> NoError]
  ELSE IF c = "!" THEN ParseNot(stk)
  ELSE
    \* let tmp = stack.pop().ok_or(MissingOperand)?
    IF n = 0 THEN [stack |-> stk, err |-> MissingOperand]
    \* op: BinOp::try_from(c)?
    ELSE IF BinOpTryFrom(c) = "Invalid" THEN
      [stack |-> SubSeq(stk, 1, n - 1), err |-> InvalidCharacter(c)]
    \* children: vec![stack.pop().ok_or(MissingOperand)?, tmp]
    ELSE IF n = 1 THEN [stack |-> << >>, err |-> MissingOperand]
    ELSE [stack |-> Append(SubSeq(stk, 1, n - 2),
                           Node(0, Binary(BinOpTryFrom(c), << stk[n - 1], stk[n] >>))),
          err |-> NoError]

\* the end of from_str with the top of any stack that is not empty returned
ParseEndTop(stk) ==
  IF Len(stk) >= 1 THEN [ok |-> TRUE, root |-> stk[Len(stk)], err |-> NoError]
  ELSE [ok |-> FALSE, root |-> NoTree, err |-> UnbalancedExpression]

\* the end of from_str: Ok(tree) with exactly one node left on the stack
ParseEnd(stk) ==
  IF Len(stk) = 1 THEN [ok |-> TRUE, root |-> stk[1], err |-> NoError]
  ELSE [ok |-> FALSE, root |-> NoTree, err |-> UnbalancedExpression]

\* Tree::from_str on a whole string
RECURSIVE FromStrFrom(_, _, _)
FromStrFrom(s, i, stk) ==
  IF i > Len(s) THEN ParseEnd(stk)
  ELSE LET r == ParseChar(stk, s[i]) IN
       IF r.err # NoError THEN [ok |-> FALSE, root |-> NoTree, err |-> r.err]
       ELSE FromStrFrom(s, i + 1, r.stack)

FromStr(s) == FromStrFrom(s, 1, << >>)

-----------------------------------------------------------------------------
(* ex06/tree.rs: get_table.                                                *)

\* ('A'..='Z').filter(|&c| expr.contains(c)).collect()
VarList(expr) == SelectSeq(Letters, LAMBDA c : Contains(expr, c))

RECURSIVE Pow2(_)
Pow2(n) == IF n = 0 THEN 1 ELSE 2 * Pow2(n - 1)

\* (i >> j) & 1
Bit(i, j) == (i \div Pow2(j)) % 2

\* the rows with the first variable as the least significant bit
RowEnvLsbFirst(var_list, i) ==
  [c \in LetterSet |->
     \E k \in 1..Len(var_list) : var_list[k] = c /\ Bit(i, k - 1) = 1]

\* the cells of a freshly parsed tree after the set_var calls of row i
RowEnv(var_list, i) ==
  [c \in LetterSet |->
     \E k \in 1..Len(var_list) :
        var_list[k] = c /\ Bit(i, Len(var_list) - (k - 1) - 1) = 1]

\* get_table(input, expr): entry i + 1 is the value of row i
GetTable(inp, expr) ==
  LET tree == FromStr(inp)
      var_list == VarList(expr)
  IN  [i \in 1..Pow2(Len(var_list)) |-> Eval(tree.root, RowEnv(var_list, i - 1))]

-----------------------------------------------------------------------------
(* ex05/node.rs and ex07/node.rs: the boxed Node enum                      *)
(* (Binary / Not / Var / Const in ex07, Binary / Not / Val in ex05).       *)

BinaryNode(op, left, right) == [t |-> "Binary", op |-> op, left |-> left, right |-> right]
NotNode(operand) == [t |-> "Not", operand |-> operand]
VarNode(name) == [t |-> "Var", name |-> name]
ConstNode(val) == [t |-> "Const", val |-> val]
ValNode(name) == [t |-> "Val", name |-> name]

NoNode == [t |-> "None"]

\* Display for Node (ex07; ex05 prints Val as ex07 prints Var)
RECURSIVE BoxToString(_)
BoxToString(n) ==
  CASE n.t = "Binary" -> BoxToString(n.left) \o BoxToString(n.right) \o << CharFromBinOp(n.op) >>
    [] n.t = "Not" -> Append(BoxToString(n.operand), "!")
    [] n.t = "Var" -> << n.name >>
    [] n.t = "Val" -> << n.name >>
    [] n.t = "Const" -> << IF n.val THEN "1" ELSE "0" >>

\* ex07 Tree::from_str, the body of the for loop
ParseChar7(stk, c) ==
  LET n == Len(stk) IN
  IF c \in {"0", "1"} THEN [stack |-> Append(stk, ConstNode(c = "1")), err |-> NoError]
  ELSE IF c \in LetterSet THEN [stack |-> Append(stk, VarNode(c)), err |-> NoError]
  ELSE IF c = "!" THEN
    IF n = 0 THEN [stack |-> stk, err |-> MissingOperand]
    ELSE [stack |-> Append(SubSeq(stk, 1, n - 1), NotNode(stk[n])), err |-> NoError]
  ELSE
    \* let op = c.try_into()?
    IF BinOpTryFrom(c) = "Invalid" THEN [stack |-> stk, err |-> InvalidCharacter(c)]
    ELSE IF n < 2 THEN [stack |-> << >>, err |-> MissingOperand]
    ELSE [stack |-> Append(SubSeq(stk, 1, n - 2),
                           BinaryNode(BinOpTryFrom(c), stk[n - 1], stk[n])),
          err |-> NoError]

\* ex05 Tree::from_str, the body of the for loop: no constants
ParseChar5(stk, c) ==
  LET n == Len(stk) IN
  IF c \in LetterSet THEN [stack |-> Append(stk, ValNode(c)), err |-> NoError]
  ELSE IF c = "!" THEN
    IF n = 0 THEN [stack |-> stk, err |-> MissingOperand]
    ELSE [stack |-> Append(SubSeq(stk, 1, n - 1), NotNode(stk[n])), err |-> NoError]
  ELSE
    IF BinOpTryFrom(c) = "Invalid" THEN [stack |-> stk, err |-> InvalidCharacter(c)]
    ELSE IF n < 2 THEN [stack |-> << >>, err |-> MissingOperand]
    ELSE [stack |-> Append(SubSeq(stk, 1, n - 2),
                           BinaryNode(BinOpTryFrom(c), stk[n - 1], stk[n])),
          err |-> NoError]

\* the end of both from_str
ParseEndBox(stk) ==
  IF Len(stk) = 1 THEN [ok |-> TRUE, root |-> stk[1], err |-> NoError]
  ELSE [ok |-> FALSE, root |-> NoNode, err |-> UnbalancedExpression]

RECURSIVE FromStr7From(_, _, _)
FromStr7From(s, i, stk) ==
  IF i > Len(s) THEN ParseEndBox(stk)
  ELSE LET r == ParseChar7(stk, s[i]) IN
       IF r.err # NoError THEN [ok |-> FALSE, root |-> NoNode, err |-> r.err]
       ELSE FromStr7From(s, i + 1, r.stack)

FromStr7(s) == FromStr7From(s, 1, << >>)

RECURSIVE FromStr5From(_, _, _)
FromStr5From(s, i, stk) ==
  IF i > Len(s) THEN ParseEndBox(stk)
  ELSE LET r == ParseChar5(stk, s[i]) IN
       IF r.err # NoError THEN [ok |-> FALSE, root |-> NoNode, err |-> r.err]
       ELSE FromStr5From(s, i + 1, r.stack)

FromStr5(s) == FromStr5From(s, 1, << >>)

\* ex07 Node::eval
RECURSIVE Eval7(_, _)
Eval7(n, env) ==
  CASE n.t = "Const" -> n.val
    [] n.t = "Var" -> env[n.name]
    [] n.t = "Not" -> ~Eval7(n.operand, env)
    [] n.t = "Binary" ->
         (CASE n.op = "And" -> Eval7(n.left, env) /\ Eval7(n.right, env)
            [] n.op = "Or" -> Eval7(n.left, env) \/ Eval7(n.right, env)
            [] n.op = "Impl" -> (~Eval7(n.left, env)) \/ Eval7(n.right, env)
            [] n.op = "Leq" -> Eval7(n.left, env) = Eval7(n.right, env)
            [] n.op = "Xor" -> Eval7(n.left, env) # Eval7(n.right, env))

\* satisfy with only the row of index 0 tried
SatisfyFirstRow(n, varlist) == Eval7(n, RowEnv(varlist, 0))

\* the loop of Tree::satisfy from row i: true at the first row that evaluates
\* to true, false when the 2^len rows are exhausted
RECURSIVE SatisfyFrom(_, _, _)
SatisfyFrom(n, varlist, i) ==
  IF i >= Pow2(Len(varlist)) THEN FALSE
  ELSE IF Eval7(n, RowEnv(varlist, i)) THEN TRUE
  ELSE SatisfyFrom(n, varlist, i + 1)

\* Tree::satisfy
Satisfy(n, varlist) == SatisfyFrom(n, varlist, 0)

-----------------------------------------------------------------------------
(* ex05/node.rs: Node::nnf.                                                *)

\* Xor -> (!A & B) | (A & !B)
NnfXor(left, right) ==
  BinaryNode("Or", BinaryNode("And", NotNode(left), right),
                   BinaryNode("And", left, NotNode(right)))

\* Impl -> !A | B
NnfImplConverse(left, right) == BinaryNode("Or", left, NotNode(right))

NnfImpl(left, right) == BinaryNode("Or", NotNode(left), right)

\* Leq == (A & B) | (!A & !B)
NnfLeq(left, right) ==
  BinaryNode("Or", BinaryNode("And", left, right),
                   BinaryNode("And", NotNode(left), NotNode(right)))

\* !(A & B) -> !A | !B
NnfNotAnd(left, right) == BinaryNode("Or", NotNode(left), NotNode(right))

\* !(A | B) -> !A & !B
NnfNotOr(left, right) == BinaryNode("And", NotNode(left), NotNode(right))

\* only an implication at the root rewritten
NnfRootOnly(n) ==
  IF n.t = "Binary" /\ n.op = "Impl" THEN NnfImpl(n.left, n.right) ELSE n

RECURSIVE Nnf(_)
Nnf(n) ==
  CASE n.t = "Val" -> n
    [] n.t = "Binary" ->
         (CASE n.op = "Xor" -> Nnf(NnfXor(n.left, n.right))
            [] n.op = "Impl" -> Nnf(NnfImpl(n.left, n.right))
            [] n.op = "Leq" -> Nnf(NnfLeq(n.left, n.right))
            [] OTHER -> BinaryNode(n.op, Nnf(n.left), Nnf(n.right)))
    [] n.t = "Not" ->
         LET o == n.operand IN
         (CASE o.t = "Val" -> NotNode(o)
            [] o.t = "Not" -> Nnf(o.operand)
            [] o.t = "Binary" ->
                 (CASE o.op = "And" -> Nnf(NnfNotAnd(o.left, o.right))
                    [] o.op = "Or" -> Nnf(NnfNotOr(o.left, o.right))
                    \* first convert to & or |, then call nnf on the result
                    [] OTHER -> Nnf(NotNode(Nnf(o)))))

-----------------------------------------------------------------------------
(* ex07/node.rs: Node::cnf.                                                *)

\* Xor -> (A | B) & (!A | !B)
CnfXor(left, right) ==
  BinaryNode("And", BinaryNode("Or", left, right),
                    BinaryNode("Or", NotNode(left), NotNode(right)))

\* Impl -> !A | B
CnfImpl(left, right) == BinaryNode("Or", NotNode(left), right)

\* Leq == (A | !B) & (!A | B)
CnfLeq(left, right) ==
  BinaryNode("And", BinaryNode("Or", left, NotNode(right)),
                    BinaryNode("Or", NotNode(left), right))

\* (A & B) | C -> (A | C) & B
CnfDistributeLeftOnce(ll, lr, right) ==
  BinaryNode("And", BinaryNode("Or", ll, right), lr)

\* (A & B) | C -> (A | C) & (B | C)
CnfDistributeLeft(ll, lr, right) ==
  BinaryNode("And", BinaryNode("Or", ll, right), BinaryNode("Or", lr, right))

\* A | (B & C) -> (A | B) & (A | C)
CnfDistributeRight(left, rl, rr) ==
  BinaryNode("And", BinaryNode("Or", left, rl), BinaryNode("Or", left, rr))

\* the rewrite of a negated binary node
CnfNotBinary(op, left, right) ==
  CASE op = "And" -> BinaryNode("Or", NotNode(left), NotNode(right))
    [] op = "Or" -> BinaryNode("And", NotNode(left), NotNode(right))
    [] op = "Leq" -> BinaryNode("Xor", left, right)
    [] op = "Xor" -> BinaryNode("Leq", left, right)
    [] op = "Impl" -> BinaryNode("And", left, NotNode(right))

RECURSIVE Cnf7(_)

\* the arm Or with the first distribution rule only
CnfOrLeftOnly(left, right) ==
  IF left.t = "Binary" /\ left.op = "And"
  THEN Cnf7(CnfDistributeLeft(left.left, left.right, right))
  ELSE BinaryNode("Or", left, right)

\* the arm Or, on the rewritten children
CnfOr(left, right) ==
  IF left.t = "Binary" /\ left.op = "And"
  THEN Cnf7(CnfDistributeLeft(left.left, left.right, right))
  ELSE IF right.t = "Binary" /\ right.op = "And"
  THEN Cnf7(CnfDistributeRight(left, right.left, right.right))
  ELSE BinaryNode("Or", left, right)

Cnf7(n) ==
  CASE n.t = "Const" -> n
    [] n.t = "Var" -> n
    [] n.t = "Binary" ->
         (CASE n.op = "Xor" -> Cnf7(CnfXor(n.left, n.right))
            [] n.op = "Impl" -> Cnf7(CnfImpl(n.left, n.right))
            [] n.op = "Leq" -> Cnf7(CnfLeq(n.left, n.right))
            [] n.op = "And" -> BinaryNode("And", Cnf7(n.left), Cnf7(n.right))
            [] n.op = "Or" ->
                 \* recurse first to bring up any ANDs
                 CnfOr(Cnf7(n.left), Cnf7(n.right)))
    [] n.t = "Not" ->
         LET o == n.operand IN
         (CASE o.t = "Const" -> ConstNode(~o.val)
            [] o.t = "Var" -> NotNode(o)
            [] o.t = "Not" -> Cnf7(o.operand)
            [] o.t = "Binary" -> Cnf7(CnfNotBinary(o.op, o.left, o.right)))

-----------------------------------------------------------------------------
(* ex07/node.rs: Node::equals and Node::simplify.                          *)

RECURSIVE Equals(_, _)
Equals(a, b) ==
  CASE a.t = "Const" /\ b.t = "Const" -> a.val = b.val
    [] a.t = "Var" /\ b.t = "Var" -> a.name = b.name
    [] a.t = "Binary" /\ b.t = "Binary" ->
         IF a.op = b.op
         THEN IF a.op = "Impl"
              THEN Equals(a.left, b.left) /\ Equals(a.right, b.right)
              ELSE \/ Equals(a.left, b.left) /\ Equals(a.right, b.right)
                   \/ Equals(a.left, b.right) /\ Equals(a.right, b.left)
         ELSE FALSE
    [] a.t = "Not" /\ b.t = "Not" -> Equals(a.operand, b.operand)
    [] OTHER -> FALSE

IsConst(n, b) == n.t = "Const" /\ n.val = b

\* the arms of match op of simplify, on the simplified children
SimplifyAnd(left, right) ==
  IF IsConst(left, FALSE) \/ IsConst(right, FALSE) THEN ConstNode(FALSE)
  ELSE IF IsConst(left, TRUE) THEN right
  ELSE IF IsConst(right, TRUE) THEN left
  ELSE IF Equals(left, right) THEN left
  ELSE BinaryNode("And", left, right)

SimplifyOr(left, right) ==
  IF IsConst(left, TRUE) \/ IsConst(right, TRUE) THEN ConstNode(TRUE)
  ELSE IF IsConst(left, FALSE) THEN right
  ELSE IF IsConst(right, FALSE) THEN left
  ELSE IF Equals(left, right) THEN left
  ELSE BinaryNode("Or", left, right)

SimplifyXor(left, right) ==
  IF left.t = "Const" /\ right.t = "Const" THEN ConstNode(left.val # right.val)
  ELSE IF IsConst(left, FALSE) THEN right
  ELSE IF IsConst(right, FALSE) THEN left
  ELSE IF IsConst(left, TRUE) THEN NotNode(right)
  ELSE IF IsConst(right, TRUE) THEN NotNode(left)
  ELSE IF Equals(left, right) THEN ConstNode(FALSE)
  ELSE BinaryNode("Xor", left, right)

SimplifyLeq(left, right) ==
  IF left.t = "Const" /\ right.t = "Const" THEN ConstNode(left.val = right.val)
  ELSE IF IsConst(left, FALSE) THEN NotNode(right)
  ELSE IF IsConst(right, FALSE) THEN NotNode(left)
  ELSE IF IsConst(left, TRUE) THEN right
  ELSE IF IsConst(right, TRUE) THEN left
  ELSE IF Equals(left, right) THEN ConstNode(TRUE)
  ELSE BinaryNode("Leq", left, right)

\* the arm Impl with A > 0 rewritten to A
SimplifyImplKept(left, right) ==
  IF IsConst(left, FALSE) \/ IsConst(right, TRUE) THEN ConstNode(TRUE)
  ELSE IF IsConst(left, TRUE) THEN right
  ELSE IF IsConst(right, FALSE) THEN left
  ELSE IF Equals(left, right) THEN ConstNode(TRUE)
  ELSE BinaryNode("Impl", left, right)

SimplifyImpl(left, right) ==
  IF IsConst(left, FALSE) \/ IsConst(right, TRUE) THEN ConstNode(TRUE)
  ELSE IF IsConst(left, TRUE) THEN right
  ELSE IF IsConst(right, FALSE) THEN NotNode(left)
  ELSE IF Equals(left, right) THEN ConstNode(TRUE)
  ELSE BinaryNode("Impl", left, right)

RECURSIVE Simplify7(_)
Simplify7(n) ==
  CASE n.t = "Const" -> n
    [] n.t = "Var" -> n
    [] n.t = "Not" ->
         LET o == n.operand IN
         (CASE o.t = "Const" -> ConstNode(~o.val)
            [] o.t = "Var" -> NotNode(o)
            [] o.t = "Not" -> Simplify7(o.operand)
            [] o.t = "Binary" -> NotNode(Simplify7(o)))
    [] n.t = "Binary" ->
         LET left == Simplify7(n.left)
             right == Simplify7(n.right)
         IN  (CASE n.op = "And" -> SimplifyAnd(left, right)
                [] n.op = "Or" -> SimplifyOr(left, right)
                [] n.op = "Xor" -> SimplifyXor(left, right)
                [] n.op = "Leq" -> SimplifyLeq(left, right)
                [] n.op = "Impl" -> SimplifyImpl(left, right))

-----------------------------------------------------------------------------
(* Vec helpers: contains, sort, dedup, lexicographic order.                *)

SeqContains(s, x) == \E i \in 1..Len(s) : s[i] = x

\* a dedup that removes nothing
DedupSkipped(s) == s

\* Vec::dedup: removes consecutive repeated elements
RECURSIVE Dedup(_)
Dedup(s) ==
  IF Len(s) <= 1 THEN s
  ELSE LET rest == Dedup(Tail(s)) IN
       IF s[1] = rest[1] THEN rest ELSE << s[1] >> \o rest

\* the derived Ord of Vec<usize>: a.cmp(b) is Less
RECURSIVE NatSeqLess(_, _)
NatSeqLess(a, b) ==
  IF a = << >> THEN b # << >>
  ELSE IF b = << >> THEN FALSE
  ELSE IF a[1] # b[1] THEN a[1] < b[1]
  ELSE NatSeqLess(Tail(a), Tail(b))

\* a stable sort (slice::sort, sort_by; sort_unstable agrees with it where
\* elements that compare equal are identical): Less(a, b) is cmp = Less.
\* its place in the sorted vector: after every smaller element and after the
\* earlier elements that compare equal
\* less[i][j] is the outcome of the comparison of s[i] with s[j]
SortedPlace(s, i, less) ==
  1 + Cardinality({ j \in 1..Len(s) : less[j][i] \/ (~less[i][j] /\ j < i) })

Sort(s, less) ==
  [p \in 1..Len(s) |-> s[CHOOSE i \in 1..Len(s) : SortedPlace(s, i, less) = p]]

\* sort of a Vec<usize>
SortNat(s) == Sort(s, [i \in 1..Len(s) |-> [j \in 1..Len(s) |-> s[i] < s[j]]])

\* sort of a Vec of Vec<usize>
SortNatSeqs(s) ==
  Sort(s, [i \in 1..Len(s) |-> [j \in 1..Len(s) |-> NatSeqLess(s[i], s[j])]])

-----------------------------------------------------------------------------
(* ex06/tree/row.rs: OptionBool and Row.                                   *)

\* the derived Ord of OptionBool: False < True < DontCare
OptionBoolRank(v) ==
  CASE v = "False" -> 0
    [] v = "True" -> 1
    [] v = "DontCare" -> 2

\* From<bool> for OptionBool
OptionBoolFrom(b) == IF b THEN "True" ELSE "False"

Row(values, id) == [values |-> values, id |-> id]

\* the derived Ord of Row: values first, then id
RowLess(a, b) ==
  LET ra == [i \in 1..Len(a.values) |-> OptionBoolRank(a.values[i])]
      rb == [i \in 1..Len(b.values) |-> OptionBoolRank(b.values[i])]
  IN  IF ra # rb THEN NatSeqLess(ra, rb) ELSE NatSeqLess(a.id, b.id)

\* sort of a Vec<Row>
SortRows(s) == Sort(s, [i \in 1..Len(s) |-> [j \in 1..Len(s) |-> RowLess(s[i], s[j])]])

\* From<&Row> for u32: values[0] ends up in the lowest bit
RECURSIVE RowBitsFrom(_, _)
RowBitsFrom(values, i) ==
  IF i > Len(values) THEN 0
  ELSE (IF values[i] = "True" THEN Pow2(i - 1) ELSE 0) + RowBitsFrom(values, i + 1)

RowToU32(row) == RowBitsFrom(row.values, 1)

\* the binary expansion of id, least significant bit first
RowNewLsbFirst(id, width) ==
  Row([i \in 1..width |-> OptionBoolFrom(Bit(id, i - 1) = 1)], << id >>)

\* Row::new(id, width): the binary expansion of id, most significant bit first
RowNew(id, width) ==
  Row([i \in 1..width |-> OptionBoolFrom(Bit(id, width - (i - 1) - 1) = 1)], << id >>)

\* Row::care: a bitfield of the care bits
RECURSIVE CareFrom(_, _)
CareFrom(values, i) ==
  IF i > Len(values) THEN 0
  ELSE (IF values[i] # "DontCare" THEN Pow2(Len(values) - (i - 1) - 1) ELSE 0)
       + CareFrom(values, i + 1)

Care(row) == CareFrom(row.values, 1)

\* a ^ b on u32
RECURSIVE BitXor(_, _)
BitXor(a, b) ==
  IF a = 0 /\ b = 0 THEN 0
  ELSE (IF a % 2 # b % 2 THEN 1 ELSE 0) + 2 * BitXor(a \div 2, b \div 2)

\* u32::count_ones
RECURSIVE CountOnes(_)
CountOnes(a) == IF a = 0 THEN 0 ELSE (a % 2) + CountOnes(a \div 2)

\* Row::diff
Diff(a, b) == BitXor(RowToU32(a), RowToU32(b))

\* Row::mark: the bits of mask become DontCare
Mark(row, mask) ==
  Row([i \in 1..Len(row.values) |->
         IF Bit(mask, i - 1) = 1 THEN "DontCare" ELSE row.values[i]],
      row.id)

\* a merge that keeps only the ids of self
MergeKeepId(a, b) == Mark(a, Diff(a, b))

\* Row::merge
Merge(a, b) ==
  LET res == Mark(a, Diff(a, b)) IN Row(res.values, res.id \o b.id)

\* can_merge asking for no differing bit
CanMergeNoDiff(a, b) == Care(a) = Care(b) /\ CountOnes(Diff(a, b)) = 0

\* Row::can_merge
CanMerge(a, b) == Care(a) = Care(b) /\ CountOnes(Diff(a, b)) = 1

-----------------------------------------------------------------------------
(* ex06/tree/cnf.rs: prime implicants.                                     *)

\* false_rows_from_table
FalseRowsFromTable(table, bit_width) ==
  LET idx == SelectSeq([i \in 1..Len(table) |-> i - 1], LAMBDA i : ~table[i + 1])
  IN  [k \in 1..Len(idx) |-> RowNew(idx[k], bit_width)]

\* the for j loop of one i: st carries new_implicants, used, found; the
\* prime_implicants list does not change while it runs
RECURSIVE MergeWithLater(_, _, _, _, _)
MergeWithLater(implicants, prime_implicants, i, j, st) ==
  IF j > Len(implicants) THEN st
  ELSE IF CanMerge(implicants[i], implicants[j]) THEN
    LET merged == Merge(implicants[i], implicants[j])
        new_implicant == Row(merged.values, SortNat(merged.id))
    IN  IF ~SeqContains(prime_implicants, new_implicant)
        THEN MergeWithLater(implicants, prime_implicants, i, j + 1,
               [new_implicants |-> Append(st.new_implicants, new_implicant),
                used |-> [st.used EXCEPT ![j] = TRUE],
                found |-> TRUE])
        ELSE MergeWithLater(implicants, prime_implicants, i, j + 1, st)
  ELSE MergeWithLater(implicants, prime_implicants, i, j + 1, st)

\* the for i loop of one pass: st carries new_implicants, used,
\* prime_implicants and done
RECURSIVE MergePassFrom(_, _, _)
MergePassFrom(implicants, i, st) ==
  IF i > Len(implicants) THEN st
  ELSE
    LET inner == MergeWithLater(implicants, st.prime_implicants, i, i + 1,
                   [new_implicants |-> st.new_implicants, used |-> st.used,
                    found |-> FALSE])
    IN  MergePassFrom(implicants, i + 1,
          [new_implicants |-> inner.new_implicants,
           used |-> inner.used,
           prime_implicants |->
             IF ~inner.found /\ ~inner.used[i]
             THEN Append(st.prime_implicants, implicants[i])
             ELSE st.prime_implicants,
           done |-> IF inner.found THEN FALSE ELSE st.done])

\* one iteration of while !done: the next implicants (sorted, deduplicated),
\* the grown prime_implicants and done
MergePass(implicants, prime_implicants) ==
  LET st == MergePassFrom(implicants, 1,
              [new_implicants |-> << >>,
               used |-> [k \in 1..Len(implicants) |-> FALSE],
               prime_implicants |-> prime_implicants,
               done |-> TRUE])
  IN  [implicants |-> Dedup(SortRows(st.new_implicants)),
       prime_implicants |-> st.prime_implicants,
       done |-> st.done]

RECURSIVE MergeLoop(_, _)
MergeLoop(implicants, prime_implicants) ==
  LET p == MergePass(implicants, prime_implicants) IN
  IF p.done THEN p.prime_implicants
  ELSE MergeLoop(p.implicants, p.prime_implicants)

\* prime_implicants_from_false_rows
PrimeImplicantsFromFalseRows(false_rows) ==
  Dedup(SortRows(MergeLoop(false_rows, << >>)))

-----------------------------------------------------------------------------
(* ex06/tree/cnf.rs: Petrick's method.  A Var is the index of a prime      *)
(* implicant (from 1 here, from 0 in the code), a Product<T> and a Sum<T>  *)
(* are the sequences of their factors and terms.                           *)

\* subset_of: a strict, smaller subset
SubsetOf(a, b) == Len(a) < Len(b) /\ \A i \in 1..Len(a) : SeqContains(b, a[i])

\* Sum::contains / Product::contains
SumContains(self, other) == SubsetOf(other, self)

\* difference: the elements of either that the other lacks
Difference(a, b) ==
  Cardinality({ i \in 1..Len(a) : ~SeqContains(b, a[i]) })
  + Cardinality({ i \in 1..Len(b) : ~SeqContains(a, b[i]) })

\* Mul for Product<T>
MulProduct(self, rhs) == self \o rhs

\* Mul for Sum<Product<T>>: (C + A)(C + B) = C + AB
MulSum(self, rhs) ==
  LET commons == SelectSeq(self, LAMBDA x : SeqContains(rhs, x))
      xs == SelectSeq(self, LAMBDA x : ~SeqContains(commons, x))
      ys == SelectSeq(rhs, LAMBDA y : ~SeqContains(commons, y))
      factors == [k \in 1..(Len(xs) * Len(ys)) |->
                    MulProduct(xs[((k - 1) \div Len(ys)) + 1], ys[((k - 1) % Len(ys)) + 1])]
  IN  commons \o factors

\* the pair (i, j) the search for the most similar elements ends with: the
\* first pair, i outermost, of the least difference
MostSimilar(expr) ==
  LET pairs == { q \in (1..Len(expr)) \X (1..Len(expr)) : q[1] # q[2] }
      d(q) == Difference(expr[q[1]], expr[q[2]])
      before(q, r) == q[1] < r[1] \/ (q[1] = r[1] /\ q[2] < r[2])
  IN  CHOOSE q \in pairs :
        \A r \in pairs : d(q) < d(r) \/ (d(q) = d(r) /\ (q = r \/ before(q, r)))

\* Vec::remove
Remove(s, i) == SubSeq(s, 1, i - 1) \o SubSeq(s, i + 1, Len(s))

\* the end of the body of while expr.len() > 1 for the pair q = (i, j): the
\* product of the two elements, cleaned, replaces them
DistributePair(expr, q) ==
  LET product_ij == MulSum(expr[q[1]], expr[q[2]])
      hi == IF q[1] > q[2] THEN q[1] ELSE q[2]
      lo == IF q[1] > q[2] THEN q[2] ELSE q[1]
  IN  Append(Remove(Remove(expr, hi), lo),
             Dedup(SortNatSeqs([k \in 1..Len(product_ij) |->
                                  Dedup(SortNat(product_ij[k]))])))

\* the body of while expr.len() > 1
DistributeStep(expr) == DistributePair(expr, MostSimilar(expr))

RECURSIVE DistributeLoop(_)
DistributeLoop(expr) ==
  IF Len(expr) > 1 THEN DistributeLoop(DistributeStep(expr)) ELSE expr

\* (a)(a+b+...) = a: the sums that contain another sum are removed
DistributeReduce(product) ==
  SelectSeq(product, LAMBDA v : ~(\E k \in 1..Len(product) : SumContains(v, product[k])))

\* every variable of every sum becomes a product of one factor
DistributeExpand(reduced) ==
  [k \in 1..Len(reduced) |-> [a \in 1..Len(reduced[k]) |-> << reduced[k][a] >>]]

\* X + XY = X: v is absorbed by a shorter v2 all of whose factors it holds
Absorbed(v, sum) ==
  \E k \in 1..Len(sum) :
     /\ Len(v) > Len(sum[k])
     /\ \A a \in 1..Len(sum[k]) : SeqContains(v, sum[k][a])
     /\ \E b \in 1..Len(v) : ~SeqContains(sum[k], v[b])

DistributeAbsorb(sum) == SelectSeq(sum, LAMBDA v : ~Absorbed(v, sum))

\* expr.pop().unwrap(), sorted and deduplicated
DistributeLast(expr) == Dedup(SortNatSeqs(expr[Len(expr)]))

\* distribute: a product of sums into a sum of products
Distribute(product) ==
  DistributeAbsorb(DistributeLast(DistributeLoop(DistributeExpand(DistributeReduce(product)))))

\* the comparison of product.sort_by: by length, then by the first term
SumLess(a, b) == IF Len(a) = Len(b) THEN a[1] < b[1] ELSE Len(a) < Len(b)

\* product.sort_by
SortSums(s) == Sort(s, [i \in 1..Len(s) |-> [j \in 1..Len(s) |-> SumLess(s[i], s[j])]])

\* the literal count of an implicant: True 1, False 2, DontCare 0
RECURSIVE LiteralCostFrom(_, _)
LiteralCostFrom(values, i) ==
  IF i > Len(values) THEN 0
  ELSE (CASE values[i] = "True" -> 1 [] values[i] = "False" -> 2 [] OTHER -> 0)
       + LiteralCostFrom(values, i + 1)

RECURSIVE ProductCostFrom(_, _, _)
ProductCostFrom(v, prime_implicants, k) ==
  IF k > Len(v) THEN 0
  ELSE LiteralCostFrom(prime_implicants[v[k]].values, 1)
       + ProductCostFrom(v, prime_implicants, k + 1)

\* prime_implicants.retain(|r| r.id.iter().any(|&i| !covered[i]))
PetrickRetain(all_prime_implicants, covered) ==
  SelectSeq(all_prime_implicants,
            LAMBDA r : \E k \in 1..Len(r.id) : ~covered[r.id[k] + 1])

\* for every row that is not covered, the sorted indices of the prime
\* implicants that cover it; the rows no prime implicant covers are left out
PetrickSums(prime_implicants, covered) ==
  LET uncovered == SelectSeq([i \in 1..Len(covered) |-> i - 1], LAMBDA i : ~covered[i + 1])
      sums == [u \in 1..Len(uncovered) |->
                 SortNat(SelectSeq([j \in 1..Len(prime_implicants) |-> j],
                                   LAMBDA j : SeqContains(prime_implicants[j].id, uncovered[u])))]
  IN  SelectSeq(sums, LAMBDA sm : sm # << >>)

\* the terms of the most prime implicants kept instead
PetrickLongest(sum) ==
  SelectSeq(sum, LAMBDA v : \A k \in 1..Len(sum) : Len(v) >= Len(sum[k]))

\* sum.retain(|v| v.len() == min)
PetrickShortest(sum) ==
  SelectSeq(sum, LAMBDA v : \A k \in 1..Len(sum) : Len(v) <= Len(sum[k]))

\* min_by_key: the first term of the fewest literals
PetrickCheapest(sum, prime_implicants) ==
  CHOOSE k \in 1..Len(sum) :
    \A o \in 1..Len(sum) :
       LET cost_k == ProductCostFrom(sum[k], prime_implicants, 1)
           cost_o == ProductCostFrom(sum[o], prime_implicants, 1)
       IN  cost_k < cost_o \/ (cost_k = cost_o /\ k <= o)

\* sum[min].iter().map(|&i| prime_implicants[*i].clone()).collect()
PetrickRows(term, prime_implicants) ==
  [k \in 1..Len(term) |-> prime_implicants[term[k]]]

PetrickChoice(sum, prime_implicants) ==
  PetrickRows(sum[PetrickCheapest(sum, prime_implicants)], prime_implicants)

\* petricks_method after the retain
PetrickSelect(prime_implicants, covered) ==
  IF prime_implicants = << >> THEN << >>
  ELSE PetrickChoice(
         PetrickShortest(Distribute(Dedup(SortSums(PetrickSums(prime_implicants, covered))))),
         prime_implicants)

\* petricks_method(prime_implicants, covered)
PetricksMethod(all_prime_implicants, covered) ==
  PetrickSelect(PetrickRetain(all_prime_implicants, covered), covered)

-----------------------------------------------------------------------------
(* ex06/tree/cnf.rs: essential prime implicants and Tree::cnf.             *)

\* the for implicant in false_rows loop: st carries essential_prime_implicants
\* and covered
RECURSIVE EssentialFrom(_, _, _, _)
EssentialFrom(false_rows, prime_implicants, k, st) ==
  IF k > Len(false_rows) THEN st
  ELSE
    LET hits == { i \in 1..Len(prime_implicants) :
                    SeqContains(prime_implicants[i].id, false_rows[k].id[1]) }
        index == CHOOSE i \in hits : \A o \in hits : o <= i
    IN  IF Cardinality(hits) = 1
           /\ ~SeqContains(st.essential_prime_implicants, prime_implicants[index])
        THEN EssentialFrom(false_rows, prime_implicants, k + 1,
               [essential_prime_implicants |->
                  Append(st.essential_prime_implicants, prime_implicants[index]),
                covered |->
                  [r \in 1..Len(st.covered) |->
                     st.covered[r] \/ SeqContains(prime_implicants[index].id, r - 1)]])
        ELSE EssentialFrom(false_rows, prime_implicants, k + 1, st)

\* essential_prime_implicants_from_prime_implicants
EssentialPrimeImplicantsFromPrimeImplicants(false_rows, prime_implicants, rows_count) ==
  LET st == EssentialFrom(false_rows, prime_implicants, 1,
              [essential_prime_implicants |-> << >>,
               covered |-> [r \in 1..rows_count |-> FALSE]])
  IN  st.essential_prime_implicants \o PetricksMethod(prime_implicants, st.covered)

\* the literals of the clause of one implicant: the bits are inverted because
\* the implicant describes zero rows
RECURSIVE ClauseLiteralsFrom(_, _, _)
ClauseLiteralsFrom(values, var_list, j) ==
  IF j > Len(values) THEN << >>
  ELSE (CASE values[j] = "False" -> << var_list[j] >>
          [] values[j] = "True" -> << var_list[j], "!" >>
          [] OTHER -> << >>)
       \o ClauseLiteralsFrom(values, var_list, j + 1)

OrNeeded(implicant) ==
  Cardinality({ j \in 1..Len(implicant.values) : implicant.values[j] # "DontCare" })

\* the string s pushed to res for one implicant
ClauseString(implicant, var_list) ==
  ClauseLiteralsFrom(implicant.values, var_list, 1) \o Repeat("|", OrNeeded(implicant) - 1)

\* the derived Ord of str: byte by byte
RECURSIVE StrLess(_, _)
StrLess(a, b) ==
  IF a = << >> THEN b # << >>
  ELSE IF b = << >> THEN FALSE
  ELSE IF a[1] # b[1] THEN Ascii(a[1]) < Ascii(b[1])
  ELSE StrLess(Tail(a), Tail(b))

\* the comparison of res.sort_by: by length, then as strings
ClauseLess(a, b) == IF Len(a) = Len(b) THEN StrLess(a, b) ELSE Len(a) < Len(b)

\* res.sort_by
SortClauses(s) ==
  Sort(s, [i \in 1..Len(s) |-> [j \in 1..Len(s) |-> ClauseLess(s[i], s[j])]])

RECURSIVE Concat(_)
Concat(ss) == IF ss = << >> THEN << >> ELSE ss[1] \o Concat(Tail(ss))

\* the result of a run that panics (an unwrap of Err, a usize underflow)
Panic == [ok |-> FALSE, root |-> NoTree, err |-> [kind |-> "Panic", c |-> ""]]

\* the emission of Tree::cnf: the string that is parsed into the result
CnfString(essential_prime_implicants, var_list) ==
  LET res == [k \in 1..Len(essential_prime_implicants) |->
                ClauseString(essential_prime_implicants[k], var_list)]
  IN  Concat(SortClauses(res)) \o Repeat("&", Len(essential_prime_implicants) - 1)

\* Step 1 of Tree::cnf: the variables, the truth table and the zero rows
CnfTable(tree_root) ==
  LET expr == NodeToString(tree_root)
      table == GetTable(expr, expr)
  IN  [var_list |-> VarList(expr),
       table |-> table,
       false_rows |-> FalseRowsFromTable(table, CountOnes(Len(table) - 1))]

\* the emission of Tree::cnf: a clause with no literal and an empty list of
\* clauses underflow a usize, a string that does not parse fails the unwrap
CnfEmission(essential_prime_implicants, var_list) ==
  LET parsed == FromStr(CnfString(essential_prime_implicants, var_list)) IN
  IF \/ essential_prime_implicants = << >>
     \/ \E k \in 1..Len(essential_prime_implicants) :
           OrNeeded(essential_prime_implicants[k]) = 0
     \/ ~parsed.ok
  THEN Panic
  ELSE parsed

-----------------------------------------------------------------------------
(* ex09/node.rs: the signed sets and Node::eval_set.  A Vec<i32> is a      *)
(* sequence of integers.                                                   *)

Positive(vec) == [sign |-> "Positive", vec |-> vec]
Negative(vec) == [sign |-> "Negative", vec |-> vec]

\* the unreachable!() of a Const node
Unreachable == [sign |-> "Panic", vec |-> << >>]

\* join: extend, sort_unstable, dedup
Join(a, b) == Dedup(SortNat(a \o b))

\* remove: the values of a that b does not contain
RemoveValues(a, b) == SelectSeq(a, LAMBDA val : ~SeqContains(b, val))

\* intersect: a.retain(|val| b.contains(val))
Intersect(a, b) == SelectSeq(a, LAMBDA val : SeqContains(b, val))

\* BitOr for Set
SetBitOr(self, other) ==
  CASE self.sign = "Panic" \/ other.sign = "Panic" -> Unreachable
    [] self.sign = "Positive" /\ other.sign = "Positive" ->
         Positive(Join(self.vec, other.vec))
    [] self.sign = "Negative" /\ other.sign = "Negative" ->
         Negative(Join(self.vec, other.vec))
    [] self.sign = "Positive" /\ other.sign = "Negative" ->
         Negative(RemoveValues(other.vec, self.vec))
    [] self.sign = "Negative" /\ other.sign = "Positive" ->
         Negative(RemoveValues(self.vec, other.vec))

\* BitAnd for Set
SetBitAnd(self, other) ==
  CASE self.sign = "Panic" \/ other.sign = "Panic" -> Unreachable
    [] self.sign = "Positive" /\ other.sign = "Positive" ->
         Positive(Intersect(self.vec, other.vec))
    [] self.sign = "Negative" /\ other.sign = "Negative" ->
         Negative(Join(self.vec, other.vec))
    [] self.sign = "Positive" /\ other.sign = "Negative" ->
         Negative(RemoveValues(self.vec, other.vec))
    [] self.sign = "Negative" /\ other.sign = "Positive" ->
         Negative(RemoveValues(other.vec, self.vec))

\* Not for Set
SetNot(self) ==
  CASE self.sign = "Panic" -> Unreachable
    [] self.sign = "Positive" -> Negative(self.vec)
    [] self.sign = "Negative" -> Positive(self.vec)

\* BitXor for Set
SetBitXor(self, other) ==
  CASE self.sign = "Panic" \/ other.sign = "Panic" -> Unreachable
    [] self.sign = "Positive" /\ other.sign = "Positive" ->
         Positive(RemoveValues(self.vec, other.vec) \o RemoveValues(other.vec, self.vec))
    [] self.sign = "Positive" /\ other.sign = "Negative" ->
         Positive(Intersect(self.vec, other.vec))
    [] self.sign = "Negative" /\ other.sign = "Positive" ->
         Positive(Intersect(other.vec, self.vec))
    [] self.sign = "Negative" /\ other.sign = "Negative" ->
         Negative(Intersect(self.vec, other.vec))

\* Node::eval_set with value[c] the Vec held by the cell of variable c.  The
\* Leq arm of the source compares the two operand sets with == and so has no
\* Set to return: it has no arm here, and no formula with = is evaluated.
RECURSIVE EvalSet(_, _)
EvalSet(n, value) ==
  CASE n.t = "Const" -> Unreachable
    [] n.t = "Var" -> Positive(value[n.name])
    [] n.t = "Not" -> SetNot(EvalSet(n.operand, value))
    [] n.t = "Binary" ->
         (CASE n.op = "And" -> SetBitAnd(EvalSet(n.left, value), EvalSet(n.right, value))
            [] n.op = "Or" -> SetBitOr(EvalSet(n.left, value), EvalSet(n.right, value))
            [] n.op = "Impl" ->
                 SetBitOr(SetNot(EvalSet(n.left, value)), EvalSet(n.right, value))
            [] n.op = "Xor" -> SetBitXor(EvalSet(n.left, value), EvalSet(n.right, value)))

-----------------------------------------------------------------------------
(* The tools run on one input string: the parser of ex06/tree reads it one *)
(* character at a time; on the tree it returns, one of the operations is   *)
(* run.                                                                    *)

NoOutput == [op |-> "none"]

\* the locals of Tree::cnf before it runs; passes counts the iterations of
\* the while loop of prime_implicants_from_false_rows
\* the threaded printer of ex04 while it is not run
\* the locals of adder and multiplier before a call
AluIdle ==
  [op |-> "none", a |-> << >>, b |-> << >>, sum |-> << >>, carry |-> << >>,
   result |-> << >>, multiplicand |-> << >>, multiplier |-> << >>]

TtIdle ==
  [vars |-> << >>, parsed |-> NoNode, threads |-> 0, max_value |-> 0,
   channels |-> << >>, next |-> << >>, worker |-> << >>, tree |-> << >>, i |-> 0]

QmIdle ==
  [var_list |-> << >>, table |-> << >>, false_rows |-> << >>,
   implicants |-> << >>, prime_implicants |-> << >>,
   essential_prime_implicants |-> << >>, passes |-> 0]

Init ==
  /\ input = << >>
  /\ stack = << >>
  /\ pc = "parsing"
  /\ err = NoError
  /\ root = NoTree
  /\ cells = [c \in LetterSet |-> FALSE]
  /\ out = NoOutput
  /\ qm = QmIdle
  /\ tt = TtIdle
  /\ alu = AluIdle

\* one iteration of for c in s.chars() of Tree::from_str
ReadChar ==
  /\ pc = "parsing"
  /\ Len(input) < MaxLen
  /\ \E c \in InputChars :
       LET r == ParseChar(stack, c) IN
       /\ input' = Append(input, c)
       /\ stack' = r.stack
       /\ err' = r.err
       /\ pc' = IF r.err = NoError THEN "parsing" ELSE "failed"
  /\ UNCHANGED <<root, cells, out, qm, tt, alu>>

\* the end of the string: Ok(Tree) or Err(UnbalancedExpression)
EndOfInput ==
  /\ pc = "parsing"
  /\ LET r == ParseEnd(stack) IN
     /\ pc' = IF r.ok THEN "parsed" ELSE "failed"
     /\ root' = r.root
     /\ err' = r.err
     /\ stack' = IF r.ok THEN << >> ELSE stack
  /\ UNCHANGED <<input, cells, out, qm, tt, alu>>

\* root.to_string()
Display ==
  /\ pc = "parsed"
  /\ pc' = "done"
  /\ out' = [op |-> "to_string", str |-> NodeToString(root)]
  /\ UNCHANGED <<input, stack, err, root, cells, qm, tt, alu>>

\* the set_var calls of one row, one for each variable of the formula, and
\* root.eval()
EvalRow ==
  /\ pc = "parsed"
  /\ pc' = "done"
  /\ \E on \in SUBSET { c \in LetterSet : Contains(input, c) } :
       /\ cells' = [c \in LetterSet |-> IF Contains(input, c) THEN c \in on ELSE cells[c]]
       /\ out' = [op |-> "eval", val |-> Eval(root, cells')]
  /\ UNCHANGED <<input, stack, err, root, qm, tt, alu>>

\* get_table(&expr, &expr)
Table ==
  /\ pc = "parsed"
  /\ pc' = "done"
  /\ out' = [op |-> "get_table", table |-> GetTable(input, input)]
  /\ UNCHANGED <<input, stack, err, root, cells, qm, tt, alu>>

\* the test with only the empty list of zero rows caught
OnlyAllTrue(false_rows, var_list) == false_rows = << >>

\* false_rows.is_empty() || false_rows.len() == 1 << var_list.len()
AllTrueOrAllFalse(false_rows, var_list) ==
  false_rows = << >> \/ Len(false_rows) = Pow2(Len(var_list))

\* Tree::cnf, Step 1: the truth table and the zero rows; a formula that is
\* true on every row or false on every row returns a constant
CnfStart ==
  /\ pc = "parsed"
  /\ LET t == CnfTable(root) IN
     IF AllTrueOrAllFalse(t.false_rows, t.var_list)
     THEN /\ pc' = "done"
          /\ out' = [op |-> "tree_cnf",
                     res |-> [ok |-> TRUE, root |-> Node(0, Const(t.false_rows = << >>)),
                              err |-> NoError]]
          /\ qm' = [qm EXCEPT !.var_list = t.var_list, !.table = t.table,
                              !.false_rows = t.false_rows]
     ELSE /\ pc' = "merge"
          /\ out' = out
          /\ qm' = [qm EXCEPT !.var_list = t.var_list, !.table = t.table,
                              !.false_rows = t.false_rows,
                              !.implicants = t.false_rows]
  /\ UNCHANGED <<input, stack, err, root, cells, tt, alu>>

\* Tree::cnf, Step 2: one iteration of the while loop of
\* prime_implicants_from_false_rows; the last one sorts and deduplicates
CnfMergePass ==
  /\ pc = "merge"
  /\ LET p == MergePass(qm.implicants, qm.prime_implicants) IN
     /\ qm' = [qm EXCEPT !.implicants = p.implicants,
                         !.prime_implicants =
                            IF p.done THEN Dedup(SortRows(p.prime_implicants))
                            ELSE p.prime_implicants,
                         !.passes = @ + 1]
     /\ pc' = IF p.done THEN "select" ELSE "merge"
  /\ UNCHANGED <<input, stack, err, root, cells, out, tt, alu>>

\* Tree::cnf, Step 3: the essential prime implicants and Petrick's method
CnfSelect ==
  /\ pc = "select"
  /\ qm' = [qm EXCEPT !.essential_prime_implicants =
              EssentialPrimeImplicantsFromPrimeImplicants(
                qm.false_rows, qm.prime_implicants, Len(qm.table))]
  /\ pc' = "emit"
  /\ UNCHANGED <<input, stack, err, root, cells, out, tt, alu>>

\* Tree::cnf, the emission: the clauses, sorted, joined by & and parsed
CnfEmit ==
  /\ pc = "emit"
  /\ out' = [op |-> "tree_cnf",
             res |-> CnfEmission(qm.essential_prime_implicants, qm.var_list)]
  /\ pc' = "done"
  /\ UNCHANGED <<input, stack, err, root, cells, qm, tt, alu>>

\* ex05: parse, then Node::nnf
RunNnf ==
  /\ pc = "parsed"
  /\ pc' = "done"
  /\ LET t == FromStr5(input) IN
     out' = [op |-> "nnf", ok |-> t.ok, err |-> t.err,
             tree |-> IF t.ok THEN Nnf(t.root) ELSE NoNode]
  /\ UNCHANGED <<input, stack, err, root, cells, qm, tt, alu>>

\* ex07: parse, then Node::cnf
RunCnf ==
  /\ pc = "parsed"
  /\ pc' = "done"
  /\ LET t == FromStr7(input) IN
     out' = [op |-> "cnf", ok |-> t.ok, err |-> t.err,
             tree |-> IF t.ok THEN Cnf7(t.root) ELSE NoNode]
  /\ UNCHANGED <<input, stack, err, root, cells, qm, tt, alu>>

\* ex07: parse, then Node::simplify
RunSimplify ==
  /\ pc = "parsed"
  /\ pc' = "done"
  /\ LET t == FromStr7(input) IN
     out' = [op |-> "simplify", ok |-> t.ok, err |-> t.err,
             tree |-> IF t.ok THEN Simplify7(t.root) ELSE NoNode]
  /\ UNCHANGED <<input, stack, err, root, cells, qm, tt, alu>>

\* ex07: Tree::satisfy on the parsed formula
RunSatisfy ==
  /\ pc = "parsed"
  /\ pc' = "done"
  /\ LET t == FromStr7(input) IN
     out' = [op |-> "satisfy", ok |-> t.ok, err |-> t.err,
             val |-> IF t.ok THEN Satisfy(t.root, VarList(input)) ELSE FALSE]
  /\ UNCHANGED <<input, stack, err, root, cells, qm, tt, alu>>

Next ==
  \/ ReadChar
  \/ EndOfInput
  \/ Display
  \/ EvalRow
  \/ Table
  \/ RunNnf
  \/ RunCnf
  \/ RunSimplify
  \/ RunSatisfy

Spec == Init /\ [][Next]_vars

-----------------------------------------------------------------------------
(* The minimizer run on a formula of every truth table over the variables  *)
(* chosen among the first NumVars letters.                                 *)

\* the clause over the variables of names that is false on row z only
Maxterm(names, z) ==
  LET n == Len(names) IN
  Concat([k \in 1..n |->
            IF Bit(z, n - k) = 1 THEN << names[k], "!" >> ELSE << names[k] >>])
  \o Repeat("|", n - 1)

\* a formula in which every variable of names occurs and whose zero rows are
\* exactly those of zeros
TableFormula(names, zeros) ==
  LET n == Len(names) IN
  IF n = 0 THEN << IF zeros = {} THEN "1" ELSE "0" >>
  ELSE IF zeros = {}
  THEN Concat([k \in 1..n |-> << names[k], names[k], "!", "|" >>]) \o Repeat("&", n - 1)
  ELSE LET rows == SelectSeq([i \in 1..Pow2(n) |-> i - 1], LAMBDA i : i \in zeros)
       IN  Concat([k \in 1..Len(rows) |-> Maxterm(names, rows[k])])
           \o Repeat("&", Len(rows) - 1)

\* one formula for every set of variables among the first max letters and
\* every truth table over them
MinInputs(max) ==
  UNION { LET names == SelectSeq(Letters, LAMBDA c : c \in chosen) IN
          { TableFormula(names, zeros) : zeros \in SUBSET (0..(Pow2(Len(names)) - 1)) }
          : chosen \in SUBSET { Letters[k] : k \in 1..max } }

\* the formulas of ex06_basic_test over three variables
TestInputs ==
  { << "A", "B", "|", "C", "&" >>,
    << "A", "B", "&", "!", "C", "!", "|" >>,
    << "A", "B", "|", "!", "C", "!", "&" >> }

\* the state Tree::from_str leaves behind on one of these formulas
InitMin ==
  /\ input \in MinInputs(NumVars) \cup TestInputs
  /\ stack = << >>
  /\ pc = "parsed"
  /\ err = NoError
  /\ root = FromStr(input).root
  /\ cells = [c \in LetterSet |-> FALSE]
  /\ out = NoOutput
  /\ qm = QmIdle
  /\ tt = TtIdle
  /\ alu = AluIdle

NextMin ==
  \/ CnfStart
  \/ CnfMergePass
  \/ CnfSelect
  \/ CnfEmit

SpecMin == InitMin /\ [][NextMin]_vars

-----------------------------------------------------------------------------
(* The rewriters run on every tree of depth at most TreeDepth over the     *)
(* first TreeVars letters and the two constants, and on its negation.      *)

TreeLeaves ==
  { VarNode(Letters[k]) : k \in 1..TreeVars } \cup { ConstNode(b) : b \in BOOLEAN }

RECURSIVE TreesOf(_)
TreesOf(d) ==
  IF d = 0 THEN TreeLeaves
  ELSE LET sub == TreesOf(d - 1) IN
       sub \cup { NotNode(t) : t \in sub }
           \cup { BinaryNode(op, l, r) : op \in BinOps, l \in sub, r \in sub }

TreeInputs(depth) ==
  LET trees == TreesOf(depth) IN
  { BoxToString(t) : t \in trees } \cup { BoxToString(NotNode(t)) : t \in trees }

\* the state Tree::from_str leaves behind on the printed tree
InitTree ==
  /\ input \in TreeInputs(TreeDepth)
  /\ stack = << >>
  /\ pc = "parsed"
  /\ err = NoError
  /\ root = FromStr(input).root
  /\ cells = [c \in LetterSet |-> FALSE]
  /\ out = NoOutput
  /\ qm = QmIdle
  /\ tt = TtIdle
  /\ alu = AluIdle

NextTree ==
  \/ RunNnf
  \/ RunCnf
  \/ RunSimplify
  \/ RunSatisfy

SpecTree == InitTree /\ [][NextTree]_vars

\* The minimizer and the algebraic rewriting run on the same formulas: the
\* trees of depth at most BothDepth over the first BothVars variables and
\* their negations.
RECURSIVE TreesOver(_, _)
TreesOver(leaves, d) ==
  IF d = 0 THEN leaves
  ELSE LET sub == TreesOver(leaves, d - 1) IN
       sub \cup { NotNode(t) : t \in sub }
           \cup { BinaryNode(op, l, r) : op \in BinOps, l \in sub, r \in sub }

BothInputs(depth) ==
  LET trees == TreesOver({ VarNode(Letters[k]) : k \in 1..BothVars }, depth) IN
  { BoxToString(t) : t \in trees } \cup { BoxToString(NotNode(t)) : t \in trees }

InitBoth ==
  /\ input \in BothInputs(BothDepth)
  /\ stack = << >>
  /\ pc = "parsed"
  /\ err = NoError
  /\ root = FromStr(input).root
  /\ cells = [c \in LetterSet |-> FALSE]
  /\ out = NoOutput
  /\ qm = QmIdle
  /\ tt = TtIdle
  /\ alu = AluIdle

NextBoth ==
  \/ CnfStart
  \/ CnfMergePass
  \/ CnfSelect
  \/ CnfEmit
  \/ RunCnf

SpecBoth == InitBoth /\ [][NextBoth]_vars

-----------------------------------------------------------------------------
(* The set evaluator of ex09 run on every tree of depth at most SetDepth   *)
(* over the first SetVars letters without = and on its negation, with      *)
(* every variable bound to a sorted Vec of distinct integers of 1..MaxElem.*)

SetInputs(depth) ==
  LET trees == TreesOver({ VarNode(Letters[k]) : k \in 1..SetVars }, depth) IN
  { e \in { BoxToString(t) : t \in trees } \cup { BoxToString(NotNode(t)) : t \in trees } :
      ~Contains(e, "=") }

\* the sorted Vec of the integers of a set
VecOf(S) == SelectSeq([i \in 1..MaxElem |-> i], LAMBDA val : val \in S)

InitSet ==
  /\ input \in SetInputs(SetDepth)
  /\ stack = << >>
  /\ pc = "parsed"
  /\ err = NoError
  /\ root = FromStr(input).root
  /\ cells = [c \in LetterSet |-> FALSE]
  /\ out = NoOutput
  /\ qm = QmIdle
  /\ tt = TtIdle
  /\ alu = AluIdle

\* ex09: set_vec on every variable of the formula, then Node::eval_set
RunEvalSet ==
  /\ pc = "parsed"
  /\ pc' = "done"
  /\ \E sets \in [{ c \in LetterSet : Contains(input, c) } -> SUBSET (1..MaxElem)] :
       LET t == FromStr7(input)
           value == [c \in LetterSet |->
                       IF c \in DOMAIN sets THEN VecOf(sets[c]) ELSE << >>]
       IN  out' = [op |-> "eval_set", ok |-> t.ok, err |-> t.err, value |-> value,
                   set |-> IF t.ok THEN EvalSet(t.root, value) ELSE Unreachable]
  /\ UNCHANGED <<input, stack, err, root, cells, qm, tt, alu>>

NextSet == RunEvalSet

SpecSet == InitSet /\ [][NextSet]_vars

-----------------------------------------------------------------------------
(* ex04/ex04.rs: print_truth_table_color and print_table_lines.  pc is the *)
(* position of the main thread, tt.worker[w] that of the thread spawned    *)
(* with offset w - 1, tt.channels[w] the lines buffered in its channel and *)
(* out.rows the lines written after the header.  The Tree of ex04 is not   *)
(* among the sources: its parser and eval are those of ex07/node.rs.       *)

\* mpsc::sync_channel(16)
ChannelDepth == 16

\* needed_threads(max_value)
NeededThreads(max_value, available_parallelism) ==
  IF max_value <= available_parallelism - 1 THEN max_value
  ELSE available_parallelism - 1

\* line_from_bitfield: the bit of every variable, first variable in the most
\* significant position, and the value of the formula
LineFromBitfield(i, var_list, tree) ==
  [bits |-> [j \in 1..Len(var_list) |-> Bit(i, Len(var_list) - (j - 1) - 1) = 1],
   value |-> Eval7(tree, RowEnv(var_list, i))]

\* the step of (offset..max_value).step_by(threads) taken from i + 1
StepByOne(i, threads) == i + 1

\* the step of (offset..max_value).step_by(threads)
StepBy(i, threads) == i + threads

\* every row asked from the first channel
FirstChannel(i, threads) == 1

\* channels[i % data.threads]
ChannelOf(i, threads) == (i % threads) + 1

\* one formula for every number of variables up to max
PrintFormula(k) ==
  IF k = 0 THEN << "1" >>
  ELSE [j \in 1..k |-> Letters[j]] \o Repeat("^", k - 1)

PrintInputs(max) == { PrintFormula(k) : k \in 0..max }

\* the state when thread::scope is entered: the formula has parsed (tt.parsed
\* is the tree the parser returns on it) and vars, max_value and threads are set
InitPrint ==
  /\ input \in PrintInputs(PrintVars)
  /\ stack = << >>
  /\ pc = "spawn"
  /\ err = NoError
  /\ root = FromStr(input).root
  /\ cells = [c \in LetterSet |-> FALSE]
  /\ out = [op |-> "print_truth_table", header |-> FALSE, rows |-> << >>]
  /\ qm = QmIdle
  /\ \E available_parallelism \in 1..MaxParallelism :
       tt = [vars |-> VarList(input),
             parsed |-> FromStr7(input).root,
             threads |-> NeededThreads(Pow2(Len(VarList(input))), available_parallelism),
             max_value |-> Pow2(Len(VarList(input))),
             channels |-> << >>, next |-> << >>, worker |-> << >>, tree |-> << >>,
             i |-> 0]
  /\ alu = AluIdle

\* one iteration of for offset in 0..data.threads: the channel is created and
\* the thread spawned
Spawn ==
  /\ pc = "spawn"
  /\ Len(tt.channels) < tt.threads
  /\ tt' = [tt EXCEPT !.channels = Append(@, << >>),
                      !.next = Append(@, Len(tt.channels)),
                      !.worker = Append(@, "spawned"),
                      !.tree = Append(@, NoNode)]
  /\ UNCHANGED <<input, stack, pc, err, root, cells, out, qm, alu>>

\* print_table_lines up to its loop: the two header lines
PrintHeader ==
  /\ pc = "spawn"
  /\ Len(tt.channels) = tt.threads
  /\ pc' = "recv"
  /\ out' = [out EXCEPT !.header = TRUE]
  /\ UNCHANGED <<input, stack, err, root, cells, qm, tt, alu>>

\* the start of a worker: formula.parse::<Tree>().unwrap(), which returns a
\* tree of its own equal to the one the parse of the main thread returned
WorkerParse(w) ==
  /\ w \in 1..Len(tt.worker)
  /\ tt.worker[w] = "spawned"
  /\ tt' = [tt EXCEPT !.worker[w] = IF tt.parsed # NoNode THEN "running" ELSE "panicked",
                      !.tree[w] = tt.parsed]
  /\ UNCHANGED <<input, stack, pc, err, root, cells, out, qm, alu>>

\* one iteration of the loop of a worker: the line is computed and sent.  send
\* waits while the channel holds ChannelDepth lines and fails, and the unwrap
\* panics, once the receiver is dropped
WorkerSend(w) ==
  /\ w \in 1..Len(tt.worker)
  /\ tt.worker[w] = "running"
  /\ tt.next[w] < tt.max_value
  /\ Len(tt.channels[w]) < ChannelDepth \/ pc \in {"join", "done", "panicked"}
  /\ IF pc \in {"join", "done", "panicked"}
     THEN tt' = [tt EXCEPT !.worker[w] = "panicked"]
     ELSE tt' = [tt EXCEPT !.channels[w] =
                             Append(@, LineFromBitfield(tt.next[w], tt.vars, tt.tree[w])),
                           !.next[w] = StepBy(@, tt.threads)]
  /\ UNCHANGED <<input, stack, pc, err, root, cells, out, qm, alu>>

\* the end of the loop of a worker: the thread returns and its sender is dropped
WorkerExit(w) ==
  /\ w \in 1..Len(tt.worker)
  /\ tt.worker[w] = "running"
  /\ tt.next[w] >= tt.max_value
  /\ tt' = [tt EXCEPT !.worker[w] = "finished"]
  /\ UNCHANGED <<input, stack, pc, err, root, cells, out, qm, alu>>

\* one iteration of for i in 0..data.max_value: i % 0 panics; recv waits while
\* the channel is empty and its sender alive and fails, and the unwrap
\* panics, when it is empty and the sender dropped
MainRecv ==
  /\ pc = "recv"
  /\ tt.i < tt.max_value
  /\ IF tt.threads = 0
     THEN /\ pc' = "panicked"
          /\ UNCHANGED <<out, tt>>
     ELSE /\ \/ tt.channels[ChannelOf(tt.i, tt.threads)] # << >>
             \/ tt.worker[ChannelOf(tt.i, tt.threads)] \in {"finished", "panicked"}
          /\ IF tt.channels[ChannelOf(tt.i, tt.threads)] # << >>
             THEN /\ out' = [out EXCEPT !.rows =
                               Append(@, Head(tt.channels[ChannelOf(tt.i, tt.threads)]))]
                  /\ tt' = [tt EXCEPT !.channels[ChannelOf(tt.i, tt.threads)] = Tail(@),
                                      !.i = @ + 1]
                  /\ pc' = pc
             ELSE /\ pc' = "panicked"
                  /\ UNCHANGED <<out, tt>>
  /\ UNCHANGED <<input, stack, err, root, cells, qm, alu>>

\* the end of print_table_lines: drop(channels)
MainDrop ==
  /\ pc = "recv"
  /\ tt.i = tt.max_value
  /\ pc' = "join"
  /\ UNCHANGED <<input, stack, err, root, cells, out, qm, tt, alu>>

\* the end of thread::scope: every spawned thread is joined
MainJoin ==
  /\ pc = "join"
  /\ \A w \in 1..Len(tt.worker) : tt.worker[w] \in {"finished", "panicked"}
  /\ pc' = IF \E w \in 1..Len(tt.worker) : tt.worker[w] = "panicked"
           THEN "panicked" ELSE "done"
  /\ UNCHANGED <<input, stack, err, root, cells, out, qm, tt, alu>>

MainStep ==
  \/ Spawn
  \/ PrintHeader
  \/ MainRecv
  \/ MainDrop
  \/ MainJoin

WorkerStep(w) ==
  \/ WorkerParse(w)
  \/ WorkerSend(w)
  \/ WorkerExit(w)

NextPrint ==
  \/ MainStep
  \/ \E w \in 1..(MaxParallelism - 1) : WorkerStep(w)

SpecPrint == InitPrint /\ [][NextPrint]_vars

\* every thread that can take a step is eventually scheduled
SpecPrintFair ==
  /\ InitPrint
  /\ [][NextPrint]_vars
  /\ WF_vars(MainStep)
  /\ \A w \in 1..(MaxParallelism - 1) : WF_vars(WorkerStep(w))

-----------------------------------------------------------------------------
(* Properties.                                                             *)

\* the bindings of the variables, as the payload of the 26 cells
Envs == { [c \in LetterSet |-> c \in on] : on \in SUBSET VarNames }

\* the value of an RPN string read token by token on a stack of Booleans,
\* with the textbook truth tables
StdOp(c, l, r) ==
  CASE c = "&" -> l /\ r
    [] c = "|" -> l \/ r
    [] c = "^" -> (l /\ ~r) \/ (~l /\ r)
    [] c = ">" -> IF l THEN r ELSE TRUE
    [] c = "=" -> (l /\ r) \/ (~l /\ ~r)

RECURSIVE RpnValueFrom(_, _, _, _)
RpnValueFrom(s, i, bs, env) ==
  IF i > Len(s) THEN bs[1]
  ELSE LET c == s[i]
           n == Len(bs)
       IN  RpnValueFrom(s, i + 1,
             IF c \in {"0", "1"} THEN Append(bs, c = "1")
             ELSE IF c \in LetterSet THEN Append(bs, env[c])
             ELSE IF c = "!" THEN [bs EXCEPT ![n] = ~@]
             ELSE Append(SubSeq(bs, 1, n - 2), StdOp(c, bs[n - 1], bs[n])),
             env)

RpnValue(s, env) == RpnValueFrom(s, 1, << >>, env)

\* C1: for a formula F over n >= 0 variables, the tree Tree::cnf returns,
\* evaluated over the variables of F in alphabetical order, has the same
\* 2^n-row truth table as F.
C1_MinimizerKeepsTable ==
  out.op = "tree_cnf" =>
    /\ out.res.ok
    /\ Len(GetTable(input, input)) = Pow2(Len(VarList(input)))
    /\ GetTable(NodeToString(out.res.root), input) = GetTable(input, input)

\* C1 witness: a three-variable table on which Petrick's method has chosen
\* among the prime implicants that are not essential
C1_Witness ==
  /\ out.op = "tree_cnf"
  /\ Len(qm.var_list) = 3
  /\ Len(qm.essential_prime_implicants) >= 3
  /\ Len(qm.prime_implicants) > Len(qm.essential_prime_implicants)
  /\ out.res.root.literal.kind = "Binary"

\* C2: Node::simplify(F) has the value of F under every binding, and the
\* printed and re-parsed result has the truth table of F over F's variables.
C2_SimplifyKeepsValue ==
  out.op = "simplify" =>
    /\ out.ok
    /\ \A env \in Envs : Eval7(out.tree, env) = Eval7(FromStr7(input).root, env)
    /\ GetTable(BoxToString(out.tree), input) = GetTable(input, input)

\* C2 witness: A 0 > under an Or is rewritten to A !
C2_Witness ==
  /\ out.op = "simplify"
  /\ input = << "A", "0", ">", "B", "1", "&", "|" >>
  /\ out.tree = BinaryNode("Or", NotNode(VarNode("A")), VarNode("B"))

\* C3: Node::cnf returns (the rewriting terminates), and its result has the
\* value of F under every binding.
C3_CnfKeepsValue ==
  out.op = "cnf" =>
    /\ out.ok
    /\ out.tree # NoNode
    /\ \A env \in Envs : Eval7(out.tree, env) = Eval7(FromStr7(input).root, env)

\* C3 witness: an Or of two Ands has been distributed into four clauses
C3_Witness ==
  /\ out.op = "cnf"
  /\ input = << "A", "B", "&", "B", "A", "&", "|" >>
  /\ out.tree.t = "Binary" /\ out.tree.op = "And"
  /\ out.tree.left.op = "And" /\ out.tree.right.op = "And"

\* C4: Node::nnf returns, and the printed result has the truth table of F
\* over F's variables; the result for A B > is !A | B, whose table is
\* true, true, false, true.
C4_NnfKeepsValue ==
  (out.op = "nnf" /\ out.ok) =>
    /\ out.tree # NoNode
    /\ \A env \in Envs : RpnValue(BoxToString(out.tree), env) = RpnValue(input, env)
    /\ GetTable(BoxToString(out.tree), input) = GetTable(input, input)
    /\ input = << "A", "B", ">" >> =>
         /\ out.tree = BinaryNode("Or", NotNode(ValNode("A")), ValNode("B"))
         /\ GetTable(BoxToString(out.tree), input) = << TRUE, TRUE, FALSE, TRUE >>

\* C4 witness: the negation of an implication between compound operands
C4_Witness ==
  /\ out.op = "nnf" /\ out.ok
  /\ input = << "A", "B", "^", "B", "!", ">", "!" >>

\* the subtrees of a boxed tree, the tree itself included
RECURSIVE SubNodes(_)
SubNodes(n) ==
  CASE n.t = "Binary" -> {n} \cup SubNodes(n.left) \cup SubNodes(n.right)
    [] n.t = "Not" -> {n} \cup SubNodes(n.operand)
    [] OTHER -> {n}

\* C5: the result of Node::cnf has no Xor, Impl or Leq node, no And node
\* below an Or node, and no Not node whose operand is not a Var.
C5_CnfForm ==
  (out.op = "cnf" /\ out.ok) =>
    \A s \in SubNodes(out.tree) :
      /\ s.t = "Binary" => s.op \in {"And", "Or"}
      /\ (s.t = "Binary" /\ s.op = "Or") =>
           \A u \in SubNodes(s) : ~(u.t = "Binary" /\ u.op = "And")
      /\ s.t = "Not" => s.operand.t = "Var"

\* C5 witness: an Or whose right operand only is a conjunction, under a Not
C5_Witness ==
  /\ out.op = "cnf" /\ out.ok
  /\ input = << "A", "B", "^", "A", "B", "=", "|", "!" >>
  /\ \E s \in SubNodes(out.tree) : s.t = "Binary" /\ s.op = "Or"

\* C6: printing the tree parsed from a well-formed string gives the string.
C6_PrintOfParse ==
  out.op = "to_string" => out.str = input

\* C6 witness: a string with an operator, a negated operand and a pending
\* negation on the root
C6_Witness ==
  /\ out.op = "to_string"
  /\ input = << "A", "!", "B", ">", "!" >>
  /\ root.not = 1 /\ root.literal.children[1].not = 1

\* C7: eval returns the textbook value of the RPN string under the binding:
\* the operand written first is the left one, Impl(l, r) is !l | r, Leq is
\* equality, m negations flip the value when m is odd; 1 0 > is false and
\* 0 1 > is true.
C7_EvalStandard ==
  out.op = "eval" =>
    /\ out.val = RpnValue(input, cells)
    /\ input = << "1", "0", ">" >> => out.val = FALSE
    /\ input = << "0", "1", ">" >> => out.val = TRUE

\* C7 witness: an implication with a true left operand, negated twice
C7_Witness ==
  /\ out.op = "eval"
  /\ input = << "A", "B", ">", "!", "!" >>
  /\ cells["A"] /\ ~cells["B"]
  /\ out.val = FALSE

\* C8: get_table returns 2^n values, and entry i is the value of the formula
\* with the k-th variable in alphabetical order (k from 0) bound to bit
\* n-1-k of i; the table of A B & is false, false, false, true.
C8_TableRows ==
  out.op = "get_table" =>
    LET used == { c \in LetterSet : Contains(input, c) }
        n == Cardinality(used)
        Rank(v) == Cardinality({ w \in used : Ascii(w) < Ascii(v) })
        Binding(i) == [c \in LetterSet |->
                         c \in used /\ (i \div (2 ^ (n - 1 - Rank(c)))) % 2 = 1]
    IN  /\ Len(out.table) = 2 ^ n
        /\ \A i \in 0..(2 ^ n - 1) : out.table[i + 1] = RpnValue(input, Binding(i))
        /\ input = << "A", "B", "&" >> => out.table = << FALSE, FALSE, FALSE, TRUE >>

\* C8 witness: a table that tells the first variable from the last
C8_Witness ==
  /\ out.op = "get_table"
  /\ input = << "A", "C", "!", "&" >>
  /\ out.table = << FALSE, FALSE, TRUE, FALSE >>

\* the characters Tree::from_str accepts
Alphabet == {"0", "1", "!", "&", "|", "^", ">", "="} \cup LetterSet

\* C9: a '!' read with an empty stack, or one of & | ^ > = read with fewer
\* than two nodes on the stack, ends the parse at once with MissingOperand
\* and no tree; 1 & fails with MissingOperand.
C9_MissingOperand ==
  [][ (pc = "parsing" /\ input' # input) =>
        LET c == input'[Len(input')] IN
        ( \/ c = "!" /\ Len(stack) = 0
          \/ c \in {"&", "|", "^", ">", "="} /\ Len(stack) < 2 ) =>
            /\ pc' = "failed"
            /\ err' = MissingOperand
            /\ root' = NoTree ]_vars

\* C9 witness: 1 & has failed with MissingOperand
C9_Witness ==
  /\ input = << "1", "&" >>
  /\ pc = "failed"
  /\ err = MissingOperand
  /\ root = NoTree

\* C10: a character c outside the alphabet, read after a prefix without
\* error, ends the parse with InvalidCharacter(c), whatever the number of
\* nodes on the stack, zero included.
C10_InvalidCharacterAnyStack ==
  [][ (pc = "parsing" /\ input' # input) =>
        LET c == input'[Len(input')] IN
        c \notin Alphabet => (pc' = "failed" /\ err' = InvalidCharacter(c)) ]_vars

\* C11: when the whole input was read without error, from_str returns a tree
\* exactly when one node is left on the stack (the tree is that node); with
\* no node (the empty string) or with two or more (0 0 & 1) it fails with
\* UnbalancedExpression and returns no tree.
C11_Unbalanced ==
  [][ (pc = "parsing" /\ pc' # "parsing" /\ input' = input) =>
        /\ (pc' = "parsed") <=> (Len(stack) = 1)
        /\ Len(stack) = 1 => (root' = stack[1] /\ err' = NoError)
        /\ Len(stack) # 1 =>
             (pc' = "failed" /\ err' = UnbalancedExpression /\ root' = NoTree) ]_vars

\* C11 witness: 0 0 & 1 has been read to its end with two nodes on the stack
C11_Witness ==
  /\ input = << "0", "0", "&", "1" >>
  /\ Len(stack) = 2
  /\ pc = "failed"
  /\ err = UnbalancedExpression
  /\ root = NoTree

\* C12: Tree::satisfy returns true exactly when one of the 2^n assignments of
\* the formula's variables makes the formula true, which is also exactly when
\* its truth table has a true entry.
C12_SatisfyIsExists ==
  out.op = "satisfy" =>
    /\ out.ok
    /\ out.val <=>
         \E on \in SUBSET { c \in LetterSet : Contains(input, c) } :
            RpnValue(input, [c \in LetterSet |-> c \in on])
    /\ out.val <=>
         \E i \in 1..Pow2(Len(VarList(input))) : GetTable(input, input)[i]

\* C12 witness: A B & is false on rows 0 to 2 and satisfied by the last row
C12_Witness ==
  /\ out.op = "satisfy"
  /\ input = << "A", "B", "&" >>
  /\ ~GetTable(input, input)[1]
  /\ out.val

\* the cubes over n variables, the rows a cube covers (row z has the first
\* variable in its most significant bit), the implicants and the prime
\* implicants of a set of zero rows, from their definitions
Cubes(n) == [1..n -> {"False", "True", "DontCare"}]

CubeRows(c, n) ==
  { z \in 0..(Pow2(n) - 1) :
      \A k \in 1..n : c[k] = "DontCare" \/ ((c[k] = "True") <=> (Bit(z, n - k) = 1)) }

ImplicantsOf(zeros, n) == { c \in Cubes(n) : CubeRows(c, n) \subseteq zeros }

PrimesAmong(implicants, n) ==
  { c \in implicants :
      \A d \in implicants : CubeRows(c, n) \subseteq CubeRows(d, n) => d = c }

PrimesOf(zeros, n) == PrimesAmong(ImplicantsOf(zeros, n), n)

\* the sizes of the sets of prime implicants that cover every zero row
CoverSizes(primes, zeros, n) ==
  { Cardinality(S) : S \in { T \in SUBSET primes :
                               \A z \in zeros : \E c \in T : z \in CubeRows(c, n) } }

MinCoverSize(zeros, n) ==
  LET sizes == CoverSizes(PrimesOf(zeros, n), zeros, n) IN
  CHOOSE m \in sizes : \A o \in sizes : m <= o

ZeroRows(expr) ==
  LET table == GetTable(expr, expr) IN { i - 1 : i \in { j \in 1..Len(table) : ~table[j] } }

\* the number of operands of the conjunction at the top of a tree
RECURSIVE ConjunctCount(_)
ConjunctCount(node) ==
  IF node.not = 0 /\ node.literal.kind = "Binary" /\ node.literal.op = "And"
  THEN ConjunctCount(node.literal.children[1]) + ConjunctCount(node.literal.children[2])
  ELSE 1

\* C13: when the zero rows are neither none nor all of the 2^n rows, the number
\* of clauses the minimizer emits (essential prime implicants plus the product
\* chosen by Petrick's method) is the least size of a set of prime implicants
\* of the zero rows that covers every zero row.
C13_MinimumCover ==
  (out.op = "tree_cnf" /\ qm.false_rows # << >>
     /\ Len(qm.false_rows) # Len(qm.table)) =>
    /\ out.res.ok
    /\ Len(qm.essential_prime_implicants)
         = MinCoverSize(ZeroRows(input), Len(VarList(input)))
    /\ ConjunctCount(out.res.root) = Len(qm.essential_prime_implicants)

\* C13 witness: a three-variable table with no essential prime implicant
\* covering everything, where Petrick's method has added to the essential ones
C13_Witness ==
  /\ out.op = "tree_cnf"
  /\ Len(qm.var_list) = 3
  /\ Cardinality(PrimesOf(ZeroRows(input), 3)) > Len(qm.essential_prime_implicants)
  /\ Len(qm.essential_prime_implicants) = 3
  /\ ConjunctCount(out.res.root) = 3

\* the number of variable and constant occurrences in a tree of ex06/tree and
\* in a boxed tree
RECURSIVE LiteralCount(_)
LiteralCount(node) ==
  IF node.literal.kind = "Binary"
  THEN LiteralCount(node.literal.children[1]) + LiteralCount(node.literal.children[2])
  ELSE 1

RECURSIVE LiteralCount7(_)
LiteralCount7(n) ==
  CASE n.t = "Binary" -> LiteralCount7(n.left) + LiteralCount7(n.right)
    [] n.t = "Not" -> LiteralCount7(n.operand)
    [] OTHER -> 1

C15_ConstantTables ==
  (ZeroRows(input) = {} \/ Cardinality(ZeroRows(input)) = Pow2(Len(VarList(input)))) =>
    /\ pc \in {"parsed", "done"}
    /\ qm.passes = 0
    /\ qm.implicants = << >>
    /\ qm.prime_implicants = << >>
    /\ qm.essential_prime_implicants = << >>
    /\ pc = "done" =>
         out = [op |-> "tree_cnf",
                res |-> [ok |-> TRUE, root |-> Node(0, Const(ZeroRows(input) = {})),
                         err |-> NoError]]

\* C15 witness: the formula 0 has no variable and one row, a zero row, and
\* has been answered by the constant 0
C15_Witness ==
  /\ input = << "0" >>
  /\ qm.var_list = << >>
  /\ Len(qm.false_rows) = 1
  /\ pc = "done"
  /\ out.op = "tree_cnf"
  /\ out.res.root = Node(0, Const(FALSE))

\* the integers of a Vec, and the set a signed result denotes in a universe
Elems(vec) == { vec[i] : i \in 1..Len(vec) }

Denoted(set, U) == IF set.sign = "Positive" THEN Elems(set.vec) ELSE U \ Elems(set.vec)

Universe(value, expr) == UNION { Elems(value[c]) : c \in { d \in LetterSet : Contains(expr, d) } }

\* C16: for a formula over variables bound to finite sets of integers, with
\* U the union of these sets, an integer u of U belongs to the set denoted by
\* the signed result of Node::eval_set (Positive(V) is V, Negative(V) is
\* U \ V) exactly when the formula is true with every variable X bound to
\* "u is in the set of X".  The code does not satisfy it.
C16_SetEvalIsPointwise ==
  out.op = "eval_set" =>
    /\ out.set.sign \in {"Positive", "Negative"}
    /\ \A u \in Universe(out.value, input) :
         (u \in Denoted(out.set, Universe(out.value, input)))
           <=> RpnValue(input, [c \in LetterSet |-> u \in Elems(out.value[c])])

\* the line of assignment index i, from the binary expansion of i and the
\* value of the formula read as an RPN string
ExpectedLine(i, expr) ==
  LET n == Len(VarList(expr)) IN
  [bits |-> [j \in 1..n |-> Bit(i, n - j) = 1],
   value |-> RpnValue(expr, [c \in LetterSet |->
                               \E j \in 1..n : VarList(expr)[j] = c /\ Bit(i, n - j) = 1])]

\* C17: with t >= 1 workers, whatever the interleaving, no thread panics,
\* every write appends the row of the assignment index equal to the number of
\* rows written before it, computed for that index, so that the rows written
\* are those of 0, 1, ... in increasing order, each once, and when the loop of
\* the main thread is over all 2^n rows are written.
C17_RowsInOrder ==
  /\ []((out.op = "print_truth_table" /\ tt.threads >= 1) =>
          /\ pc # "panicked"
          /\ \A w \in 1..Len(tt.worker) : tt.worker[w] # "panicked"
          /\ tt.max_value = Pow2(Len(tt.vars))
          /\ Len(out.rows) = tt.i
          /\ out.rows # << >> => out.header
          /\ pc \in {"join", "done"} => Len(out.rows) = tt.max_value)
  /\ [][(out.op = "print_truth_table" /\ out'.rows # out.rows) =>
          out'.rows = Append(out.rows, ExpectedLine(Len(out.rows), input))]_vars

\* C17 witness: three workers have produced the 32 rows of a table of five
\* variables and the main thread has written them
C17_Witness ==
  /\ out.op = "print_truth_table"
  /\ tt.threads = 3
  /\ pc = "done"
  /\ Len(out.rows) = 32
  /\ out.rows[32] = ExpectedLine(31, input)

\* the main thread waits on an empty channel whose worker is finished,
\* panicked or waiting on a full channel
PrintStuck ==
  /\ pc = "recv"
  /\ tt.threads >= 1
  /\ tt.i < tt.max_value
  /\ tt.channels[(tt.i % tt.threads) + 1] = << >>
  /\ \/ tt.worker[(tt.i % tt.threads) + 1] \in {"finished", "panicked"}
     \/ Len(tt.channels[(tt.i % tt.threads) + 1]) >= ChannelDepth

PrintTerminated ==
  /\ pc = "done"
  /\ Len(out.rows) = tt.max_value
  /\ Len(tt.worker) = tt.threads
  /\ \A w \in 1..Len(tt.worker) : tt.worker[w] = "finished"

\* C18: with t >= 1 workers, each on its own channel of depth 16, and the
\* main thread receiving row i from channel i mod t, the main thread never
\* waits on an empty channel whose worker is blocked or finished, and every
\* fair execution reaches the state where the main thread has written the
\* 2^n rows and every worker has terminated.
C18_PrinterTerminates ==
  /\ [](out.op = "print_truth_table" => ~PrintStuck)
  /\ (out.op = "print_truth_table" /\ tt.threads >= 1) ~> PrintTerminated

\* C18 witness: two workers, whose 16 rows each fill a channel, have finished
\* and the main thread has written the 32 rows and joined them
C18_Witness ==
  /\ out.op = "print_truth_table"
  /\ tt.threads = 2
  /\ tt.max_value = 32
  /\ PrintTerminated

\* C19: the tree Node::nnf returns has only And and Or as binary nodes and
\* every Not in it has a variable as operand: no Xor, Impl or Leq node, no
\* negation of a binary node and no negation of a negation is left.
C19_NnfForm ==
  (out.op = "nnf" /\ out.ok) =>
    \A s \in SubNodes(out.tree) :
      /\ s.t \in {"Binary", "Not", "Val"}
      /\ s.t = "Binary" => s.op \in {"And", "Or"}
      /\ s.t = "Not" => s.operand.t = "Val"

\* C19 witness: the negation of an equivalence, whose rewriting goes through
\* negated conjunctions and double negations
C19_Witness ==
  /\ out.op = "nnf" /\ out.ok
  /\ input = << "A", "B", "=", "!" >>
  /\ out.tree = BinaryNode("And",
                  BinaryNode("Or", NotNode(ValNode("A")), NotNode(ValNode("B"))),
                  BinaryNode("Or", ValNode("A"), ValNode("B")))

\* the literals of the clause of an implicant, and items joined from the left:
\* x1 x2 op x3 op ...
RECURSIVE LiteralsFrom(_, _, _)
LiteralsFrom(values, var_list, j) ==
  IF j > Len(values) THEN << >>
  ELSE (CASE values[j] = "False" -> << << var_list[j] >> >>
          [] values[j] = "True" -> << << var_list[j], "!" >> >>
          [] OTHER -> << >>)
       \o LiteralsFrom(values, var_list, j + 1)

LeftJoin(items, op) ==
  items[1] \o Concat([k \in 1..(Len(items) - 1) |-> items[k + 1] \o << op >>])

LeftClauses(implicants, var_list) ==
  SortClauses([k \in 1..Len(implicants) |->
                 LeftJoin(LiteralsFrom(implicants[k].values, var_list, 1), "|")])

\* C20: when Tree::cnf emits three clauses or more, the tree it returns is
\* the conjunction built from the left, ((c1 & c2) & c3) & ..., printed
\* c1 c2 & c3 & ..., every clause of three literals being printed
\* l1 l2 | l3 | in the same way.  The code does not satisfy it: it returns
\* c1 & (c2 & (c3 & ...)), printed c1 c2 c3 ... & &.
C20_LeftAssociative ==
  (out.op = "tree_cnf" /\ Len(qm.essential_prime_implicants) >= 3) =>
    /\ out.res.ok
    /\ NodeToString(out.res.root)
         = LeftJoin(LeftClauses(qm.essential_prime_implicants, qm.var_list), "&")

\* C21: Tree::cnf of A B | C & prints A B | C &: at emission the clause
\* A | B is put before the clause C.  The code does not satisfy it: the
\* clauses are sorted by length first, so that C comes before A B |.
C21_AlreadyMinimal ==
  (out.op = "tree_cnf" /\ input = << "A", "B", "|", "C", "&" >>) =>
    /\ out.res.ok
    /\ NodeToString(out.res.root) = << "A", "B", "|", "C", "&" >>

\* a binary node of operator op whose operands are a formula and its negation
Complementary(n, op) ==
  /\ n.t = "Binary"
  /\ n.op = op
  /\ n.right = NotNode(n.left) \/ n.left = NotNode(n.right)

\* C22: Node::simplify rewrites the conjunction of a formula and its negation
\* to the constant 0 and their disjunction to the constant 1 (A A ! & gives
\* 0, A A ! | gives 1).  The code does not satisfy it: an operand and its
\* negation are not recognised, and the node is returned as it is.
C22_Complements ==
  (out.op = "simplify" /\ out.ok) =>
    /\ Complementary(FromStr7(input).root, "And") => out.tree = ConstNode(FALSE)
    /\ Complementary(FromStr7(input).root, "Or") => out.tree = ConstNode(TRUE)

-----------------------------------------------------------------------------
(* The main functions of the binaries that take a formula argument: the    *)
(* value main returns, Ok(()) (exit code 0) or Err(ParseError) (exit code  *)
(* 1), on the path where no later step panics.                             *)

MainLen == 2

ExitOk == [ok |-> TRUE, err |-> NoError]
ExitErr(e) == [ok |-> FALSE, err |-> e]

Binaries == {"ex04", "ex05", "ex06", "ex09"}

\* parse_args: an empty expression is Err(path), main prints the usage
ParseArgs(expr) == expr # << >>

\* ex04 main: let formula = expr.parse::<Tree>()?;
Main04(expr, dot) ==
  IF ~ParseArgs(expr) THEN ExitOk
  ELSE LET formula == FromStr7(expr) IN
       IF ~formula.ok THEN ExitErr(formula.err) ELSE ExitOk

\* ex05 main: let tree = expr.parse::<Tree>()?;
Main05(expr, dot) ==
  IF ~ParseArgs(expr) THEN ExitOk
  ELSE LET tree == FromStr5(expr) IN
       IF ~tree.ok THEN ExitErr(tree.err) ELSE ExitOk

\* ex06 main: let tree = expr.parse::<Tree>()?.root;
Main06(expr, dot) ==
  IF ~ParseArgs(expr) THEN ExitOk
  ELSE LET tree == FromStr(expr) IN
       IF ~tree.ok THEN ExitErr(tree.err) ELSE ExitOk

\* ex09 main: the formula is parsed with ? only under -d; eval_set prints
\* its own parse error, returns vec![], and main ends with Ok(())
Main09(expr, dot) ==
  IF ~ParseArgs(expr) THEN ExitOk
  ELSE LET tree == FromStr7(expr) IN
       IF dot /\ ~tree.ok THEN ExitErr(tree.err) ELSE ExitOk

Main(binary, expr, dot) ==
  CASE binary = "ex04" -> Main04(expr, dot)
    [] binary = "ex05" -> Main05(expr, dot)
    [] binary = "ex06" -> Main06(expr, dot)
    [] binary = "ex09" -> Main09(expr, dot)

\* the formula's own parser in each binary
ParseOf(binary, expr) ==
  CASE binary = "ex05" -> FromStr5(expr)
    [] binary = "ex06" -> [ok |-> FromStr(expr).ok, err |-> FromStr(expr).err]
    [] OTHER -> FromStr7(expr)

InitMain ==
  /\ input \in UNION { [1..n -> InputChars] : n \in 0..MainLen }
  /\ stack = << >>
  /\ pc = "args"
  /\ err = NoError
  /\ root = NoTree
  /\ cells = [c \in LetterSet |-> FALSE]
  /\ out = NoOutput
  /\ qm = QmIdle
  /\ tt = TtIdle
  /\ alu = AluIdle

\* one run of a binary on the formula argument, with or without -d
RunMain ==
  /\ pc = "args"
  /\ pc' = "exited"
  /\ \E binary \in Binaries, dot \in BOOLEAN :
       out' = [op |-> "main", binary |-> binary, dot |-> dot,
               exit |-> Main(binary, input, dot)]
  /\ UNCHANGED <<input, stack, err, root, cells, qm, tt, alu>>

NextMain == RunMain

SpecMain == InitMain /\ [][NextMain]_vars

\* C23: in every exercise binary, a formula argument that fails to parse
\* makes main return that ParseError, with or without the -d flag; no path
\* returns success
C23_ParseErrorPropagates ==
  (out.op = "main" /\ ParseArgs(input) /\ ~ParseOf(out.binary, input).ok) =>
    out.exit = ExitErr(ParseOf(out.binary, input).err)

-----------------------------------------------------------------------------
(* ex00 adder and ex01 multiplier.  A u32 is the sequence of its bits, the *)
(* least significant first; a word of any other width wraps in the same    *)
(* way.                                                                    *)

U32Bits == 32
WordBits == 4

\* 0 as a word of w bits
WZero(w) == [i \in 1..w |-> 0]

\* u32::MAX
WMax(w) == [i \in 1..w |-> 1]

\* the literal n as a word of w bits
WordOf(n, w) == [i \in 1..w |-> IF i <= 31 THEN Bit(n, i - 1) ELSE 0]

\* a | b (used only as a fault of a ^ b)
WOr(a, b) == [i \in 1..Len(a) |-> IF a[i] = 1 \/ b[i] = 1 THEN 1 ELSE 0]

\* a ^ b
WXor(a, b) == [i \in 1..Len(a) |-> (a[i] + b[i]) % 2]

\* a & b
WAnd(a, b) == [i \in 1..Len(a) |-> a[i] * b[i]]

\* a << 1: the top bit is shifted out
WShl1(a) == [i \in 1..Len(a) |-> IF i = 1 THEN 0 ELSE a[i - 1]]

\* a >> 1
WShr1(a) == [i \in 1..Len(a) |-> IF i = Len(a) THEN 0 ELSE a[i + 1]]

\* the test that always adds (a fault of multiplier & 1 == 1)
LowBitAlways(a) == TRUE

\* multiplier & 1 == 1
LowBitSet(a) == a[1] = 1

\* the arguments of the calls: every pair of WordBits-bit words, and the
\* 32-bit values of test_adder and test_multiplier
TestWords ==
  { WordOf(n, U32Bits) : n \in {0, 1, 2, 3, 4, 6, 8, 12, 15, 27, 123, 456, 499, 500} }
    \cup { WMax(U32Bits), WXor(WMax(U32Bits), WordOf(1, U32Bits)) }

AluWords(w) == IF w = U32Bits THEN TestWords ELSE [1..w -> {0, 1}]

InitAlu ==
  /\ input = << >>
  /\ stack = << >>
  /\ pc = "call"
  /\ err = NoError
  /\ root = NoTree
  /\ cells = [c \in LetterSet |-> FALSE]
  /\ out = NoOutput
  /\ qm = QmIdle
  /\ tt = TtIdle
  /\ \E w \in {WordBits, U32Bits} :
       \E a \in AluWords(w), b \in AluWords(w), op \in {"adder", "multiplier"} :
         alu = [AluIdle EXCEPT !.op = op, !.a = a, !.b = b]

\* adder called from main: let mut sum = a ^ b; let mut carry = (a & b) << 1;
AdderEnter ==
  /\ pc = "call"
  /\ alu.op = "adder"
  /\ pc' = "adder_loop"
  /\ alu' = [alu EXCEPT !.sum = WXor(alu.a, alu.b),
                        !.carry = WShl1(WAnd(alu.a, alu.b))]
  /\ UNCHANGED <<input, stack, err, root, cells, out, qm, tt>>

\* adder: one iteration of while carry != 0
AdderIter ==
  /\ pc = "adder_loop"
  /\ alu.carry # WZero(Len(alu.carry))
  /\ alu' = [alu EXCEPT !.sum = WXor(alu.carry, alu.sum),
                        !.carry = WShl1(WAnd(alu.carry, alu.sum))]
  /\ UNCHANGED <<input, stack, pc, err, root, cells, out, qm, tt>>

\* adder called from main: the loop ends and sum is returned
AdderReturn ==
  /\ pc = "adder_loop"
  /\ alu.op = "adder"
  /\ alu.carry = WZero(Len(alu.carry))
  /\ pc' = "done"
  /\ out' = [op |-> "adder", value |-> alu.sum]
  /\ UNCHANGED <<input, stack, err, root, cells, qm, tt, alu>>

\* multiplier: let mut result = 0; let mut multiplicand = a; let mut multiplier = b;
MultiplierEnter ==
  /\ pc = "call"
  /\ alu.op = "multiplier"
  /\ pc' = "multiplier_loop"
  /\ alu' = [alu EXCEPT !.result = WZero(Len(alu.a)),
                        !.multiplicand = alu.a,
                        !.multiplier = alu.b]
  /\ UNCHANGED <<input, stack, err, root, cells, out, qm, tt>>

\* multiplier: while multiplier != 0 { if multiplier & 1 == 1 {, with the
\* entry of adder(result, multiplicand)
MultiplierTest ==
  /\ pc = "multiplier_loop"
  /\ alu.multiplier # WZero(Len(alu.multiplier))
  /\ IF LowBitSet(alu.multiplier)
     THEN /\ pc' = "adder_loop"
          /\ alu' = [alu EXCEPT !.sum = WXor(alu.result, alu.multiplicand),
                                !.carry = WShl1(WAnd(alu.result, alu.multiplicand))]
     ELSE /\ pc' = "multiplier_shift"
          /\ alu' = alu
  /\ UNCHANGED <<input, stack, err, root, cells, out, qm, tt>>

\* multiplier: adder returns, result = adder(result, multiplicand)
MultiplierAdded ==
  /\ pc = "adder_loop"
  /\ alu.op = "multiplier"
  /\ alu.carry = WZero(Len(alu.carry))
  /\ pc' = "multiplier_shift"
  /\ alu' = [alu EXCEPT !.result = alu.sum]
  /\ UNCHANGED <<input, stack, err, root, cells, out, qm, tt>>

\* multiplier: multiplier = multiplier >> 1; multiplicand = multiplicand << 1;
MultiplierShift ==
  /\ pc = "multiplier_shift"
  /\ pc' = "multiplier_loop"
  /\ alu' = [alu EXCEPT !.multiplier = WShr1(alu.multiplier),
                        !.multiplicand = WShl1(alu.multiplicand)]
  /\ UNCHANGED <<input, stack, err, root, cells, out, qm, tt>>

\* multiplier: the loop ends and result is returned
MultiplierReturn ==
  /\ pc = "multiplier_loop"
  /\ alu.multiplier = WZero(Len(alu.multiplier))
  /\ pc' = "done"
  /\ out' = [op |-> "multiplier", value |-> alu.result]
  /\ UNCHANGED <<input, stack, err, root, cells, qm, tt, alu>>

NextAlu ==
  \/ AdderEnter
  \/ AdderIter
  \/ AdderReturn
  \/ MultiplierEnter
  \/ MultiplierTest
  \/ MultiplierAdded
  \/ MultiplierShift
  \/ MultiplierReturn

SpecAlu == InitAlu /\ [][NextAlu]_vars

\* the call is one thread that runs until it returns
SpecAluFair == SpecAlu /\ WF_vars(NextAlu)

\* the value of a word as base-256 digits, the least significant first
Limbs(a) ==
  [k \in 1..((Len(a) + 7) \div 8) |->
     LET bit(j) == IF 8 * (k - 1) + j <= Len(a) THEN a[8 * (k - 1) + j] ELSE 0
     IN  bit(1) + 2 * bit(2) + 4 * bit(3) + 8 * bit(4)
         + 16 * bit(5) + 32 * bit(6) + 64 * bit(7) + 128 * bit(8)]

\* the w low bits of a number given by its base-256 digits
LimbsToWord(l, w) == [i \in 1..w |-> Bit(l[((i - 1) \div 8) + 1], (i - 1) % 8)]

\* the digits of x + y, by columns with a carry, as many digits as x has
RECURSIVE SumDigits(_, _, _, _)
SumDigits(x, y, k, c) ==
  IF k > Len(x) THEN << >>
  ELSE << (x[k] + y[k] + c) % 256 >> \o SumDigits(x, y, k + 1, (x[k] + y[k] + c) \div 256)

\* x[1] * y[k] + x[2] * y[k - 1] + ... + x[k] * y[1]
RECURSIVE Column(_, _, _, _)
Column(x, y, k, i) == IF i > k THEN 0 ELSE x[i] * y[k + 1 - i] + Column(x, y, k, i + 1)

\* the digits of x * y, by columns with a carry, as many digits as x has
RECURSIVE ProductDigits(_, _, _, _)
ProductDigits(x, y, k, c) ==
  IF k > Len(x) THEN << >>
  ELSE << (Column(x, y, k, 1) + c) % 256 >>
         \o ProductDigits(x, y, k + 1, (Column(x, y, k, 1) + c) \div 256)

\* (a + b) mod 2^w and (a * b) mod 2^w for words of w bits
WrappingAdd(a, b) == LimbsToWord(SumDigits(Limbs(a), Limbs(b), 1, 0), Len(a))
WrappingMul(a, b) == LimbsToWord(ProductDigits(Limbs(a), Limbs(b), 1, 0), Len(a))

\* C24: for every pair of words a and b, adder(a, b) terminates and returns
\* (a + b) mod 2^32 (2^w on the narrower words); adder(1, u32::MAX) = 0
C24_Adder ==
  /\ [](out.op = "adder" => out.value = WrappingAdd(alu.a, alu.b))
  /\ [](out.op = "adder" /\ alu.a = WordOf(1, U32Bits) /\ alu.b = WMax(U32Bits)
          => out.value = WZero(U32Bits))
  /\ (alu.op = "adder") ~> (pc = "done" /\ out.op = "adder")

C24_Witness ==
  /\ pc = "done"
  /\ out.op = "adder"
  /\ alu.a = WordOf(1, U32Bits)
  /\ alu.b = WMax(U32Bits)
  /\ out.value = WZero(U32Bits)

\* C25: for every pair of words a and b, multiplier(a, b) terminates and
\* returns (a * b) mod 2^32 (2^w on the narrower words), also for
\* a = b = u32::MAX
C25_Multiplier ==
  /\ [](out.op = "multiplier" => out.value = WrappingMul(alu.a, alu.b))
  /\ (alu.op = "multiplier") ~> (pc = "done" /\ out.op = "multiplier")

C25_Witness ==
  /\ pc = "done"
  /\ out.op = "multiplier"
  /\ alu.a = WMax(U32Bits)
  /\ alu.b = WMax(U32Bits)
  /\ out.value = WordOf(1, U32Bits)

\* the operands of the operator at the root of the formula evaluated by ex09
RootIs(op) ==
  /\ out.op = "eval_set"
  /\ out.ok
  /\ FromStr7(input).root.t = "Binary"
  /\ FromStr7(input).root.op = op

LeftSet == EvalSet(FromStr7(input).root.left, out.value)
RightSet == EvalSet(FromStr7(input).root.right, out.value)

\* C26: over the universe U, Positive(a) | Positive(b) denotes a union b,
\* Negative(a) | Negative(b) denotes the complement of (a intersect b), and a
\* mixed pair Positive(p), Negative(n) in either order denotes the complement
\* of (n minus p).  The code does not satisfy it.
C26_UnionTable ==
  RootIs("Or") =>
    LET U == Universe(out.value, input)
        l == LeftSet
        r == RightSet
    IN  Denoted(out.set, U) =
          CASE l.sign = "Positive" /\ r.sign = "Positive" -> Elems(l.vec) \cup Elems(r.vec)
            [] l.sign = "Negative" /\ r.sign = "Negative" ->
                 U \ (Elems(l.vec) \cap Elems(r.vec))
            [] l.sign = "Positive" /\ r.sign = "Negative" ->
                 U \ (Elems(r.vec) \ Elems(l.vec))
            [] l.sign = "Negative" /\ r.sign = "Positive" ->
                 U \ (Elems(l.vec) \ Elems(r.vec))

\* C27: over the universe U, Positive(a) & Positive(b) denotes a intersect b,
\* Negative(a) & Negative(b) denotes the complement of (a union b), and a
\* mixed pair Positive(p), Negative(n) in either order yields the positive
\* set p minus n.  The code does not satisfy it.
C27_IntersectionTable ==
  RootIs("And") =>
    LET U == Universe(out.value, input)
        l == LeftSet
        r == RightSet
    IN  CASE l.sign = "Positive" /\ r.sign = "Positive" ->
               Denoted(out.set, U) = Elems(l.vec) \cap Elems(r.vec)
          [] l.sign = "Negative" /\ r.sign = "Negative" ->
               Denoted(out.set, U) = U \ (Elems(l.vec) \cup Elems(r.vec))
          [] l.sign = "Positive" /\ r.sign = "Negative" ->
               /\ out.set.sign = "Positive"
               /\ Elems(out.set.vec) = Elems(l.vec) \ Elems(r.vec)
          [] l.sign = "Negative" /\ r.sign = "Positive" ->
               /\ out.set.sign = "Positive"
               /\ Elems(out.set.vec) = Elems(r.vec) \ Elems(l.vec)

\* the row indices of the zero-set handed to prime_implicants_from_false_rows
ZeroSet == { qm.false_rows[k].id[1] : k \in 1..Len(qm.false_rows) }

\* a pattern that matches only zero rows and that matches a non-zero row as
\* soon as one of its care bits is turned into DontCare
PrimePattern(c, zeros, n) ==
  /\ CubeRows(c, n) \subseteq zeros
  /\ \A k \in 1..n :
       c[k] # "DontCare" => ~(CubeRows([c EXCEPT ![k] = "DontCare"], n) \subseteq zeros)

\* C28: for every zero-set over n variables that is neither empty nor full,
\* the merge loop of prime_implicants_from_false_rows terminates after at
\* most n + 1 passes (a pass is never started after pass n + 1) and returns,
\* without duplicates, exactly the prime implicants of the zero-set
C28_PrimeImplicants ==
  /\ pc = "merge" => qm.passes <= Len(qm.var_list)
  /\ pc = "select" =>
       LET n == Len(qm.var_list)
           primes == qm.prime_implicants
       IN  /\ qm.passes <= n + 1
           /\ \A i, j \in 1..Len(primes) : primes[i].values = primes[j].values => i = j
           /\ { primes[k].values : k \in 1..Len(primes) }
                = { c \in Cubes(n) : PrimePattern(c, ZeroSet, n) }

C28_Witness ==
  /\ pc = "select"
  /\ Len(qm.var_list) = NumVars
  /\ qm.passes = NumVars
  /\ Len(qm.prime_implicants) > 2
  /\ \E k \in 1..Len(qm.prime_implicants) : qm.prime_implicants[k].values[1] = "DontCare"

\* C29: the worker count of the threaded printer is at least 1 for every
\* formula and every available parallelism p >= 1, so that i % threads in
\* print_table_lines never divides by zero.  The code does not satisfy it.
C29_AtLeastOneWorker ==
  (out.op = "print_truth_table" /\ pc \in {"recv", "panicked"}) =>
    /\ tt.threads >= 1
    /\ ~(tt.i < tt.max_value /\ tt.threads = 0)

\* the rows held by the prime-implicant loop: the seed rows, the implicants
\* of the current pass and the prime implicants found so far
LoopRows ==
  Elems(qm.false_rows) \cup Elems(qm.implicants) \cup Elems(qm.prime_implicants)

DontCares(values) == Cardinality({ k \in 1..Len(values) : values[k] = "DontCare" })

\* C30: every row of any pass of the prime-implicant loop (seed rows from
\* Row::new and merged rows after the id sort) has as many values as there
\* are variables, a strictly increasing id, 2^(number of DontCare positions)
\* ids, and as ids exactly the row indices whose binary expansion, most
\* significant bit first, agrees with values on every care position
C30_RowInvariant ==
  \A row \in LoopRows :
    /\ Len(row.values) = Len(qm.var_list)
    /\ \A i \in 1..(Len(row.id) - 1) : row.id[i] < row.id[i + 1]
    /\ Len(row.id) = Pow2(DontCares(row.values))
    /\ Elems(row.id) = CubeRows(row.values, Len(qm.var_list))

C30_Witness ==
  /\ pc = "select"
  /\ Len(qm.var_list) = NumVars
  /\ \E row \in Elems(qm.prime_implicants) : DontCares(row.values) = 2 /\ Len(row.id) = 4
  /\ \E row \in Elems(qm.prime_implicants) : DontCares(row.values) = 1 /\ Len(row.id) = 2

=============================================================================
